---------------------------- MODULE Spec2Model ----------------------------
(***************************************************************************)
(* Model of Populate_Snipe_IT.py: the reconciliation of a Snipe-IT         *)
(* inventory with a BigFix device feed and a personnel directory.          *)
(*                                                                         *)
(* Strings are kept as strings; strip(), upper() and lower() are tables    *)
(* over the finite universe of strings the model draws its inputs from.    *)
(* A timestamp is a number, 0 being datetime.min; a timestamp *text* is a  *)
(* tuple <<format, t>>, so that parsing and formatting are conversions     *)
(* that can fail.                                                          *)
(***************************************************************************)
EXTENDS Integers, Sequences, FiniteSets, TLC

(***************************************************************************)
(* Bounds of the model.                                                    *)
(***************************************************************************)
MaxTime == 2
MaxRows == 3
MaxParts == 1
MaxFeed == 2
MaxFaults == 1

(***************************************************************************)
(* Configuration constants of the script.                                  *)
(***************************************************************************)
DEFAULT_CATEGORY_NAME == "Desktop"
DEFAULT_STATUS_LABEL == "Ready to Deploy"
CHECKED_OUT_STATUS_LABEL == "Deployed"
DEFAULT_LOCATION_NAME == "Office"
TARGET_COMPANY_NAME == "NYU - Tandon School of Engineering"
SERIAL_SKIP_LIST == <<"0123456789", "To be filled by O.E.M.", "System Serial Number">>

(***************************************************************************)
(* str.strip(), str.upper(), str.lower() on the strings of the model.      *)
(***************************************************************************)
StripTable ==
    (" S1 " :> "S1") @@ ("  " :> "") @@ (" s2" :> "s2") @@
    (" To be filled by O.E.M. " :> "To be filled by O.E.M.") @@
    (" to be filled by o.e.m. " :> "to be filled by o.e.m.") @@
    (" u1 " :> "u1") @@ ("U2 " :> "U2") @@ (" Dell" :> "Dell") @@
    ("Laptop " :> "Laptop")

StripStr(s) == IF s \in DOMAIN StripTable THEN StripTable[s] ELSE s

UpperTable ==
    ("s1" :> "S1") @@ ("s2" :> "S2") @@
    ("To be filled by O.E.M." :> "TO BE FILLED BY O.E.M.") @@
    ("to be filled by o.e.m." :> "TO BE FILLED BY O.E.M.") @@
    ("System Serial Number" :> "SYSTEM SERIAL NUMBER") @@
    ("system serial number" :> "SYSTEM SERIAL NUMBER")

UpperStr(s) == IF s \in DOMAIN UpperTable THEN UpperTable[s] ELSE s

LowerTable ==
    ("U1" :> "u1") @@ ("U2" :> "u2") @@ ("E1" :> "e1") @@ ("E2" :> "e2") @@
    ("Dell" :> "dell") @@ ("DELL" :> "dell") @@ (" Dell" :> " dell") @@ ("Laptop" :> "laptop") @@
    ("Desktop" :> "desktop") @@ ("Kiosk" :> "kiosk") @@ ("M1" :> "m1") @@
    ("Ready to Deploy" :> "ready to deploy") @@ ("Deployed" :> "deployed") @@
    ("Archived" :> "archived") @@ ("Office" :> "office") @@
    ("NYU - Tandon School of Engineering" :> "nyu - tandon school of engineering") @@
    ("ENG-u1-01" :> "eng-u1-01") @@ ("ENG-u2-01" :> "eng-u2-01") @@
    ("ENG-u3-01" :> "eng-u3-01") @@ ("LAB-01" :> "lab-01") @@ ("LAB-" :> "lab-") @@
    ("ENG-u2" :> "eng-u2") @@
    ("PC-A" :> "pc-a") @@ ("PC-B" :> "pc-b") @@ ("ENG-KIOSK" :> "eng-kiosk") @@
    ("S1" :> "s1") @@ ("S2" :> "s2") @@ ("( Work" :> "( work")

LowerStr(s) == IF s \in DOMAIN LowerTable THEN LowerTable[s] ELSE s

(***************************************************************************)
(* Timestamps.  TimeMin is datetime.min.  A feed timestamp text is         *)
(* <<"feed", t>> (the '%B %d, %Y %I:%M %p' text of t), <<"bad">> (a text   *)
(* strptime rejects) or <<"none">> (the empty cell).  A notes timestamp    *)
(* text is <<"iso", t>> (the '%Y-%m-%d %H:%M:%S' text of t).               *)
(***************************************************************************)
TimeMin == 0
Times == TimeMin .. MaxTime
NoTime == <<"none">>
BadTime == <<"bad">>
FeedTimeText(t) == <<"feed", t>>

\* a parse that ranks an unparseable text above every timestamp
ParseMalformedAsNewest(time_str) ==
    IF Len(time_str) = 2 /\ time_str[1] = "feed" THEN time_str[2] ELSE MaxTime + 1

parse_last_report_time(time_str) ==
    IF Len(time_str) = 2 /\ time_str[1] = "feed" THEN time_str[2] ELSE TimeMin

\* strftime('%Y-%m-%d %H:%M:%S')
FormatIso(t) == <<"iso", t>>

Max(S) == CHOOSE x \in S : \A y \in S : y <= x
Min(S) == CHOOSE x \in S : \A y \in S : x <= y
Range(f) == {f[i] : i \in DOMAIN f}


(***************************************************************************)
(* None, and Python truthiness of a string.                                *)
(***************************************************************************)
NONE == "<none>"
Falsy(s) == s \in {"", NONE}

(***************************************************************************)
(* Asset notes.  A notes text is the sequence of its lines (split on       *)
(* '\n'); the empty text is the one blank line.  A line is <<"blank">>,    *)
(* <<"text", s>> (a line without the marker) or <<"marker", stamp>> (a     *)
(* line that contains 'BigFix Last Report:', stamp being the text after    *)
(* it).  NullNotes is the JSON null of an asset that has no notes.         *)
(***************************************************************************)
BlankLine == <<"blank">>
EmptyNotes == <<BlankLine>>
NullNotes == << <<"null">> >>
MarkerLine(stamp) == <<"marker", stamp>>
TextLine(s) == <<"text", s>>
HasMarker(line) == line[1] = "marker"

\* str.strip() at the two ends of a line of text
LStripStr(s) ==
    IF s = " see ticket " THEN "see ticket " ELSE IF s = " see ticket" THEN "see ticket" ELSE s
RStripStr(s) ==
    IF s = " see ticket " THEN " see ticket" ELSE IF s = "see ticket " THEN "see ticket" ELSE s
LStripLine(line) == IF line[1] = "text" THEN <<"text", LStripStr(line[2])>> ELSE line
RStripLine(line) == IF line[1] = "text" THEN <<"text", RStripStr(line[2])>> ELSE line

\* str.strip() of the joined lines: leading and trailing blank lines go, and
\* the whitespace before the first and after the last line that stays.
StripNotes(lines) ==
    LET nb == {i \in DOMAIN lines : lines[i] # BlankLine}
    IN  IF nb = {} THEN EmptyNotes
        ELSE [i \in 1..(Max(nb) - Min(nb) + 1) |->
                IF i = 1 /\ i = Max(nb) - Min(nb) + 1
                THEN RStripLine(LStripLine(lines[Min(nb)]))
                ELSE IF i = 1 THEN LStripLine(lines[Min(nb)])
                ELSE IF i = Max(nb) - Min(nb) + 1 THEN RStripLine(lines[Max(nb)])
                ELSE lines[Min(nb) + i - 1]]

\* a patch that appends the new marker line and leaves the old ones
AppendMarkerLine(current_notes, new_report_time) ==
    StripNotes(Append(current_notes, MarkerLine(FormatIso(new_report_time))))

\* a patch that writes the marker line and nothing else
MarkerLineAlone(current_notes, new_report_time) == <<MarkerLine(FormatIso(new_report_time))>>

update_bigfix_last_report_in_notes(current_notes, new_report_time) ==
    LET new_report_line == MarkerLine(FormatIso(new_report_time))
        updated_lines == [i \in DOMAIN current_notes |->
                            IF HasMarker(current_notes[i]) THEN new_report_line
                            ELSE current_notes[i]]
        found_bigfix_line == \E i \in DOMAIN current_notes : HasMarker(current_notes[i])
    IN  StripNotes(IF found_bigfix_line THEN updated_lines
                   ELSE Append(updated_lines, new_report_line))

\* datetime.strptime(time_str, '%Y-%m-%d %H:%M:%S'); ValueError gives
\* datetime.min at the loader.
ParseIso(stamp) ==
    IF Len(stamp) = 2 /\ stamp[1] = "iso" THEN stamp[2] ELSE TimeMin

\* The loader's recovery of the timestamp from the notes (the first marker
\* line decides).
LastReportTimeFromNotes(notes) ==
    LET notes_match == {i \in DOMAIN notes : HasMarker(notes[i])}
    IN  IF notes_match = {} THEN TimeMin
        ELSE ParseIso(notes[Min(notes_match)][2])

(***************************************************************************)
(* extract_netid on one comma-free part of a hint column (find_best_netid  *)
(* splits the column on ',' before it calls extract_netid).                *)
(***************************************************************************)
\* part.startswith('(') and part.endswith(')')
IsWrapped(part) == part \in {"(u2)", "( u1@nyu.edu )", "()"}
\* part[1:-1].strip()
InnerTable == ("(u2)" :> "u2") @@ ("( u1@nyu.edu )" :> "u1@nyu.edu") @@ ("()" :> "")
\* '@' in s
HasAt(s) == s \in {"u1@nyu.edu", "u2@nyu.edu", "u1@nyu.edu )", "@nyu.edu"}
\* s.split('@')[0]
BeforeAtTable ==
    ("u1@nyu.edu" :> "u1") @@ ("u2@nyu.edu" :> "u2") @@
    ("u1@nyu.edu )" :> "u1") @@ ("@nyu.edu" :> "")

extract_netid(text) ==
    IF Falsy(text) THEN NONE
    ELSE LET part == LowerStr(StripStr(text))
         IN  IF IsWrapped(part)
             THEN LET inner_content == InnerTable[part]
                  IN  IF HasAt(inner_content) THEN BeforeAtTable[inner_content]
                      ELSE IF inner_content # "" THEN inner_content
                      ELSE NONE
             ELSE IF HasAt(part) THEN BeforeAtTable[part]
             ELSE IF part # "" THEN part
             ELSE NONE

\* Python's order of the strings extract_netid can return here.
AlphaOrder == <<"( work", "u1", "u2", "u3">>
AlphaRank(s) == CHOOSE i \in DOMAIN AlphaOrder : AlphaOrder[i] = s

(***************************************************************************)
(* Directory rows and the remote-user cache.                               *)
(***************************************************************************)
NoUser == [id |-> NONE, username |-> NONE, employee_num |-> NONE, email |-> NONE]

\* the first directory row whose EmployeeNetId.strip().lower() is netid; 0 if none
FirstDirMatch(directory, netid) ==
    LET hits == {i \in DOMAIN directory :
                    LowerStr(StripStr(directory[i].EmployeeNetId)) = netid}
    IN  IF hits = {} THEN 0 ELSE Min(hits)

HintColumns(row) == <<row.FirefoxUsers, row.ChromeUsers, row.WifiUsers>>

\* every comma-separated part of every checked column
HintPositions(columns) == UNION {{<<c, i>> : i \in DOMAIN columns[c]} : c \in DOMAIN columns}

\* netid = extract_netid(part); if netid: netid_candidates[netid] += 1
CountsAs(part, netid) == extract_netid(StripStr(part)) = netid /\ ~Falsy(netid)

CountIn(columns, netid) ==
    Cardinality({ci \in HintPositions(columns) : CountsAs(columns[ci[1]][ci[2]], netid)})

\* netid_candidates: the Counter over all parts of the three columns (0: not a key)
CounterOf(columns) == [n \in Range(AlphaOrder) |-> CountIn(columns, n)]
netid_candidates(row) == CounterOf(HintColumns(row))

\* sorted(items, key=(-count, netid))
RECURSIVE SortCandidates(_, _)
SortCandidates(counts, S) ==
    IF S = {} THEN <<>>
    ELSE LET first == CHOOSE n \in S : \A m \in S :
                        \/ counts[n] > counts[m]
                        \/ counts[n] = counts[m] /\ AlphaRank(n) <= AlphaRank(m)
         IN  <<first>> \o SortCandidates(counts, S \ {first})

sorted_candidates(counts) == SortCandidates(counts, {n \in DOMAIN counts : counts[n] > 0})

\* a comparison that lets an equally frequent candidate take the lead
CandidateAtLeast(count, max_count_found) == count >= max_count_found

\* if count > max_count_found
CandidateStrictlyMore(count, max_count_found) == count > max_count_found

\* a check that takes a directory match for a provisioned user
DirectoryMatchOnly(directory, snipeit_users_, netid, d) == d # 0

\* dir_match and snipeit_user_exists of find_best_netid
SnipeitUserExistsAt(directory, snipeit_users_, netid, d) ==
    /\ d # 0
    /\ \/ StripStr(directory[d].EmployeeID) # ""
          /\ StripStr(directory[d].EmployeeID) \in DOMAIN snipeit_users_
       \/ netid \in DOMAIN snipeit_users_

SnipeitUserExists(directory, snipeit_users_, netid) ==
    SnipeitUserExistsAt(directory, snipeit_users_, netid, FirstDirMatch(directory, netid))

\* the loop over sorted_candidates: st = [max, at_max]
RECURSIVE BestLoop(_, _, _, _, _, _)
BestLoop(counts, directory, snipeit_users_, sorted, i, st) ==
    IF i > Len(sorted) THEN st
    ELSE IF st.max # -1 /\ counts[sorted[i]] < st.max THEN st
    ELSE BestLoop(counts, directory, snipeit_users_, sorted, i + 1,
            IF ~SnipeitUserExists(directory, snipeit_users_, sorted[i]) THEN st
            ELSE IF CandidateStrictlyMore(counts[sorted[i]], st.max)
            THEN [max |-> counts[sorted[i]], at_max |-> <<sorted[i]>>]
            ELSE IF counts[sorted[i]] = st.max
            THEN [max |-> st.max, at_max |-> Append(st.at_max, sorted[i])]
            ELSE st)

\* the return statements after the loop
OnlyOne(qualifying_netids_at_max_count) ==
    IF Len(qualifying_netids_at_max_count) = 1 THEN qualifying_netids_at_max_count[1]
    ELSE NONE

BestOf(counts, directory, snipeit_users_) ==
    OnlyOne(BestLoop(counts, directory, snipeit_users_, sorted_candidates(counts), 1,
                     [max |-> -1, at_max |-> <<>>]).at_max)

find_best_netid(row, directory, snipeit_users_) ==
    BestOf(netid_candidates(row), directory, snipeit_users_)


(***************************************************************************)
(* The state of a run.                                                     *)
(***************************************************************************)
VARIABLES
    pc,                              \* position of main()
    passNo,                          \* 1: the run; 2: the same run repeated
    halted,                          \* why the run stopped before its summary ("" if not)
    faults_left,                     \* remote calls that may still fail
    checkout_sets_status,            \* the remote moves an asset to 'Deployed' on checkout
    calls,                           \* remote calls issued so far
    \* ---- the remote system
    r_statuslabels, r_locations, r_companies, r_manufacturers, r_categories,
    r_models, r_users, r_hardware,
    \* ---- input files
    feed,                            \* bigfix_export.csv: the rows, in file order
    directory_file,                  \* directory_export.csv
    admins_file,                     \* multi_user_admins.csv
    hardware_before,                 \* history: the remote hardware before the first run
    \* ---- main()'s dictionaries and counters
    snipeit_statuses, snipeit_manufacturers, snipeit_categories, snipeit_models,
    snipeit_locations, snipeit_companies, snipeit_assets,
    snipeit_users,                   \* cache: employee_num / username -> user
    directory_data_for_user_lookup,  \* accepted directory rows
    dirIdx,                          \* rows of the directory read so far
    rowIdx,                          \* rows of the feed read so far
    bigfix_data,                     \* dict serial_upper -> row, parsed time (insertion order)
    skipped_serial_count,
    todo,                            \* manufacturers / models still to be looked at
    multi_user_admins_data,          \* Priority 4 rules
    devIdx,                          \* position in bigfix_data of the current device
    snipeit_target_user_info,        \* resolved user of the current device
    user_name_for_assignment,
    best_fallback_netid,             \* what find_best_netid returned for the device
    evaluated,                       \* priorities evaluated for the current device
    current_notes_on_snipeit,
    current_snipeit_status, current_snipeit_assigned_to_id,
    assets_skipped_final_count,
    \* ---- get_snipeit_data_paginated, one call
    fetch_pc,                        \* position in the function ("idle" outside of it)
    collection,                      \* the rows the endpoint serves
    offset,
    all_items,
    page_rows,                       \* the rows of the latest response
    requested,                       \* offsets requested by the call, in order
    undelayed                        \* a remote call was issued and no delay followed yet

runVars == <<passNo, halted, faults_left, checkout_sets_status, calls>>
remoteVars == <<r_statuslabels, r_locations, r_companies, r_manufacturers, r_categories,
                r_models, r_users, r_hardware>>
inputVars == <<feed, directory_file, admins_file, hardware_before>>
fetchVars == <<fetch_pc, collection, offset, all_items, page_rows, requested, undelayed>>
taxonomyVars == <<snipeit_statuses, snipeit_manufacturers, snipeit_categories,
                  snipeit_models, snipeit_locations, snipeit_companies>>
feedVars == <<rowIdx, bigfix_data, skipped_serial_count>>
identityVars == <<directory_data_for_user_lookup, snipeit_users, multi_user_admins_data,
                  dirIdx>>
resolveVars == <<snipeit_target_user_info, user_name_for_assignment,
                 best_fallback_netid, evaluated>>
deviceVars == <<devIdx, current_notes_on_snipeit, current_snipeit_status,
                current_snipeit_assigned_to_id, assets_skipped_final_count>>
vars == <<pc, runVars, remoteVars, inputVars, fetchVars, taxonomyVars, snipeit_assets, feedVars,
          identityVars, todo, resolveVars, deviceVars>>

(***************************************************************************)
(* Source Normalizer / Deduplicator: one row of the device feed.           *)
(***************************************************************************)
SkipListUpper == {UpperStr(SERIAL_SKIP_LIST[i]) : i \in DOMAIN SERIAL_SKIP_LIST}

\* position of key in the dict, 0 when absent
DictIndex(data, key) ==
    IF \E i \in DOMAIN data : data[i].key = key
    THEN CHOOSE i \in DOMAIN data : data[i].key = key
    ELSE 0

\* bigfix_data[key] = entry: a new key goes last, an old key keeps its place
DictPut(data, entry) ==
    IF DictIndex(data, entry.key) = 0 THEN Append(data, entry)
    ELSE [data EXCEPT ![DictIndex(data, entry.key)] = entry]

\* a comparison that lets an equally recent row replace the retained one
ParsedNewerOrEqual(parsed_time, kept_time) == parsed_time >= kept_time

\* parsed_time > bigfix_data[serial_upper]['parsed_last_report_time']
ParsedNewer(parsed_time, kept_time) == parsed_time > kept_time

\* a comparison with the configured list as written, not upper-cased
InSkipListAsWritten(serial_upper) == serial_upper \in Range(SERIAL_SKIP_LIST)

\* serial_upper in [s.upper() for s in SERIAL_SKIP_LIST]
InSkipList(serial_upper) == serial_upper \in SkipListUpper

FeedRowStep(data, row) ==
    LET serial == row.Serial
        serial_upper == UpperStr(StripStr(serial))
        parsed_time == parse_last_report_time(row.LastReportTime)
    IN  IF Falsy(serial) \/ StripStr(serial) = "" THEN [data |-> data, skipped |-> 1]
        ELSE IF InSkipList(serial_upper) THEN [data |-> data, skipped |-> 1]
        ELSE IF row.LastReportTime = NoTime THEN [data |-> data, skipped |-> 1]
        ELSE IF \/ DictIndex(data, serial_upper) = 0
                \/ ParsedNewer(parsed_time,
                               data[DictIndex(data, serial_upper)].parsed_last_report_time)
             THEN [data |-> DictPut(data, [key |-> serial_upper, row |-> row,
                                           parsed_last_report_time |-> parsed_time]),
                   skipped |-> 0]
             ELSE [data |-> data, skipped |-> 0]

ReadFeedRow ==
    /\ pc = "read_feed"
    /\ rowIdx < Len(feed)
    /\ LET r == FeedRowStep(bigfix_data, feed[rowIdx + 1])
       IN  /\ bigfix_data' = r.data
           /\ skipped_serial_count' = skipped_serial_count + r.skipped
    /\ rowIdx' = rowIdx + 1
    /\ UNCHANGED <<pc, runVars, remoteVars, inputVars, fetchVars, taxonomyVars, snipeit_assets,
                   identityVars, todo, resolveVars, deviceVars>>


(***************************************************************************)
(* User Resolution Engine: the four priorities of main().                  *)
(***************************************************************************)
\* computer_name_for_asset: the stripped Computer Name, or the serial
ComputerNameForAsset(row) ==
    IF ~Falsy(row.ComputerName) /\ StripStr(row.ComputerName) # ""
    THEN StripStr(row.ComputerName)
    ELSE StripStr(row.Serial)

\* s.startswith(prefix), for the prefixes the model uses
StartsWith(s, prefix) ==
    \/ prefix = "eng-" /\ s \in {"eng-u1-01", "eng-u2-01", "eng-u3-01", "eng-kiosk", "eng-u2"}
    \/ prefix = "lab-" /\ s \in {"lab-01"}
    \/ prefix = "eng-kiosk" /\ s \in {"eng-kiosk"}
    \/ prefix = s

\* '-' in s[4:]
HyphenAfterPrefix(s) == s \in {"eng-u1-01", "eng-u2-01", "eng-u3-01"}

\* s.split('-')[1]
SecondSegmentTable ==
    ("eng-u1-01" :> "u1") @@ ("eng-u2-01" :> "u2") @@ ("eng-u3-01" :> "u3") @@
    ("eng-kiosk" :> "kiosk") @@ ("eng-u2" :> "u2") @@ ("lab-01" :> "01")

\* the lookup priorities 1, 3 and 4 make once the directory row d is found:
\* by the row's Employee-ID first, then by the NetID key
CacheLookupAt(directory, snipeit_users_, d, netid_key) ==
    IF d = 0 THEN NoUser
    ELSE IF StripStr(directory[d].EmployeeID) # ""
            /\ StripStr(directory[d].EmployeeID) \in DOMAIN snipeit_users_
    THEN snipeit_users_[StripStr(directory[d].EmployeeID)]
    ELSE IF netid_key \in DOMAIN snipeit_users_ THEN snipeit_users_[netid_key]
    ELSE NoUser

CacheLookup(directory, snipeit_users_, dir_key, netid_key) ==
    CacheLookupAt(directory, snipeit_users_, FirstDirMatch(directory, dir_key), netid_key)

Unresolved == [info |-> NoUser, name |-> NONE]
Found(info, name) == IF info = NoUser THEN Unresolved ELSE [info |-> info, name |-> name]

Priority1Of(bigfix_primary_user_name, directory, snipeit_users_) ==
    IF bigfix_primary_user_name = "" THEN Unresolved
    ELSE Found(CacheLookup(directory, snipeit_users_, LowerStr(bigfix_primary_user_name),
                           LowerStr(bigfix_primary_user_name)),
               bigfix_primary_user_name)

Priority1(row, directory, snipeit_users_) ==
    Priority1Of(StripStr(row.UserName), directory, snipeit_users_)

\* every directory row of the NetID is tried for its Employee-ID, then the NetID key
Priority2At(best, byEmployeeId, directory, snipeit_users_) ==
    IF Falsy(best) THEN Unresolved
    ELSE IF byEmployeeId # {}
    THEN [info |-> snipeit_users_[StripStr(directory[Min(byEmployeeId)].EmployeeID)],
          name |-> best]
    ELSE IF LowerStr(best) \in DOMAIN snipeit_users_
    THEN [info |-> snipeit_users_[LowerStr(best)], name |-> best]
    ELSE [info |-> NoUser, name |-> best]

Priority2Of(best, directory, snipeit_users_) ==
    Priority2At(best,
                {i \in DOMAIN directory :
                    /\ LowerStr(StripStr(directory[i].EmployeeNetId)) = best
                    /\ StripStr(directory[i].EmployeeID) # ""
                    /\ StripStr(directory[i].EmployeeID) \in DOMAIN snipeit_users_},
                directory, snipeit_users_)

\* an extraction that asks for the 'eng-' prefix alone
TokenOfAnyEngName(computer_name_lower) ==
    IF StartsWith(computer_name_lower, "eng-") THEN SecondSegmentTable[computer_name_lower]
    ELSE NONE

\* extracted_netid: parts[1] of a name that starts with 'eng-' and has a
\* further hyphen
Priority3Token(computer_name_lower) ==
    IF StartsWith(computer_name_lower, "eng-") /\ HyphenAfterPrefix(computer_name_lower)
    THEN SecondSegmentTable[computer_name_lower]
    ELSE NONE

Priority3For(extracted_netid, directory, snipeit_users_) ==
    IF extracted_netid = NONE THEN Unresolved
    ELSE Found(CacheLookup(directory, snipeit_users_, extracted_netid,
                           LowerStr(extracted_netid)),
               extracted_netid)

Priority3Of(computer_name_lower, directory, snipeit_users_) ==
    Priority3For(Priority3Token(computer_name_lower), directory, snipeit_users_)

Priority3(row, directory, snipeit_users_) ==
    Priority3Of(LowerStr(ComputerNameForAsset(row)), directory, snipeit_users_)

\* the first rule whose schema is a prefix of the name and whose netid validates
Priority4At(ok, directory, snipeit_users_, admins) ==
    IF ok = {} THEN Unresolved
    ELSE [info |-> CacheLookup(directory, snipeit_users_, admins[Min(ok)].netid,
                               admins[Min(ok)].netid),
          name |-> admins[Min(ok)].netid]

Priority4Of(computer_name_lower, directory, snipeit_users_, admins) ==
    Priority4At({i \in DOMAIN admins :
                    /\ StartsWith(computer_name_lower, admins[i].name_schema)
                    /\ CacheLookup(directory, snipeit_users_, admins[i].netid,
                                   admins[i].netid) # NoUser},
                directory, snipeit_users_, admins)

Priority4(row, directory, snipeit_users_, admins) ==
    Priority4Of(LowerStr(ComputerNameForAsset(row)), directory, snipeit_users_, admins)

\* a guard that evaluates the next priority whatever was found
AlwaysEvaluate(info) == TRUE

\* "if not snipeit_target_user_info" before priorities 2, 3 and 4
StillUnresolved(info) == info = NoUser

\* r: [info, name, best, evaluated] after the priorities evaluated so far
After4(r, go4, r4) ==
    IF ~go4 THEN r
    ELSE [info |-> r4.info,
          name |-> IF r4.info # NoUser THEN r4.name ELSE r.name,
          best |-> r.best,
          evaluated |-> r.evaluated \cup {4}]

Chain4(r, row, directory, snipeit_users_, admins) ==
    IF StillUnresolved(r.info) /\ admins # <<>>
    THEN After4(r, TRUE, Priority4(row, directory, snipeit_users_, admins))
    ELSE r

After3(r, r3) ==
    [info |-> r3.info,
     name |-> IF r3.info # NoUser THEN r3.name ELSE r.name,
     best |-> r.best,
     evaluated |-> r.evaluated \cup {3}]

Chain3(r, row, directory, snipeit_users_, admins) ==
    Chain4(IF StillUnresolved(r.info)
           THEN After3(r, Priority3(row, directory, snipeit_users_))
           ELSE r,
           row, directory, snipeit_users_, admins)

\* priority 2 overwrites the name as soon as find_best_netid names one
After2(r, best, r2) ==
    [info |-> r2.info,
     name |-> IF ~Falsy(best) THEN best ELSE r.name,
     best |-> best,
     evaluated |-> r.evaluated \cup {2}]

Priority2Step(r, best, directory, snipeit_users_) ==
    After2(r, best, Priority2Of(best, directory, snipeit_users_))

Chain2(r, row, directory, snipeit_users_, admins) ==
    Chain3(IF StillUnresolved(r.info)
           THEN Priority2Step(r, find_best_netid(row, directory, snipeit_users_),
                              directory, snipeit_users_)
           ELSE r,
           row, directory, snipeit_users_, admins)

After1(r1) == [info |-> r1.info, name |-> r1.name, best |-> NONE, evaluated |-> {1}]

ResolveChain(row, directory, snipeit_users_, admins) ==
    Chain2(After1(Priority1(row, directory, snipeit_users_)),
           row, directory, snipeit_users_, admins)

CurrentRow == bigfix_data[devIdx].row

\* a loop that goes on to the assignment workflow with or without a user
AlwaysFetchLive(info) == "fetch_live"

\* "if not snipeit_target_user_info: ... continue"
AfterResolution(info) == IF info = NoUser THEN "next_device" ELSE "fetch_live"

\* a resolution that provisions the user the cache does not hold
ResolveUserProvisioning ==
    /\ pc = "resolve"
    /\ \E r \in {ResolveChain(CurrentRow, directory_data_for_user_lookup, snipeit_users,
                               multi_user_admins_data)} :
           /\ snipeit_target_user_info' = r.info
           /\ user_name_for_assignment' = r.name
           /\ best_fallback_netid' = r.best
           /\ evaluated' = r.evaluated
           /\ pc' = AfterResolution(r.info)
           /\ assets_skipped_final_count' =
                  assets_skipped_final_count + (IF r.info = NoUser THEN 1 ELSE 0)
           /\ calls' = IF r.info = NoUser
                       THEN calls \cup {[pass |-> passNo, site |-> "resolve", op |-> "POST",
                                          target |-> <<"users", r.name>>]}
                       ELSE calls
    /\ UNCHANGED <<passNo, halted, faults_left, checkout_sets_status, remoteVars, inputVars, fetchVars,
                   taxonomyVars, snipeit_assets, feedVars, identityVars, todo, devIdx,
                   current_notes_on_snipeit, current_snipeit_status,
                   current_snipeit_assigned_to_id>>

ResolveUser ==
    /\ pc = "resolve"
    /\ \E r \in {ResolveChain(CurrentRow, directory_data_for_user_lookup, snipeit_users,
                               multi_user_admins_data)} :
           /\ snipeit_target_user_info' = r.info
           /\ user_name_for_assignment' = r.name
           /\ best_fallback_netid' = r.best
           /\ evaluated' = r.evaluated
           /\ pc' = AfterResolution(r.info)
           /\ assets_skipped_final_count' =
                  assets_skipped_final_count + (IF r.info = NoUser THEN 1 ELSE 0)
    /\ UNCHANGED <<runVars, remoteVars, inputVars, fetchVars, taxonomyVars, snipeit_assets, feedVars,
                   identityVars, todo, devIdx, current_notes_on_snipeit,
                   current_snipeit_status, current_snipeit_assigned_to_id>>


(***************************************************************************)
(* The remote system and the calls made to it.                             *)
(* A remote object's numeric id is modelled by its name (its tag, for a    *)
(* hardware record).  A call is answered "ok", or fails as "http_json" (a  *)
(* non-2xx answer with a JSON body and no 'already been taken' message),   *)
(* "http_nonjson" (a non-2xx answer whose body is not JSON) or             *)
(* "transport" (requests raised before there was a response).  An          *)
(* 'already been taken' answer is not a fault: the remote gives it when    *)
(* the object exists.                                                      *)
(***************************************************************************)
Faults == {"http_json", "http_nonjson", "transport"}
Outcomes == {"ok"} \cup (IF faults_left > 0 /\ passNo = 1 THEN Faults ELSE {})
Spend(outcome) == faults_left' = faults_left - (IF outcome = "ok" THEN 0 ELSE 1)

Call(site, op, target) == [pass |-> passNo, site |-> site, op |-> op, target |-> target]
Log(site, op, target) == calls' = calls \cup {Call(site, op, target)}
Mutating(c) == c.op \in {"POST", "PUT", "DELETE"}

Unassigned == [type |-> "none", id |-> NONE]
AssignedTo(type, id) == [type |-> type, id |-> id]

\* a dict built by "for x in list: d[key(x)] = value(x)": the last row wins
RECURSIVE DictFrom(_, _)
DictFrom(keys, values) ==
    IF keys = <<>> THEN [k \in {} |-> NONE]
    ELSE LET n == Len(keys)
             rest == DictFrom(SubSeq(keys, 1, n - 1), SubSeq(values, 1, n - 1))
         IN  (keys[n] :> values[n]) @@ rest

EmptyDict == [k \in {} |-> NONE]
Get(dict, key) == IF key \in DOMAIN dict THEN dict[key] ELSE NONE

(***************************************************************************)
(* Reference Snapshot Loader: get_snipeit_data_paginated(endpoint) and the *)
(* indexing of its rows.  Every collection of the model fits on one page,  *)
(* so a failed page request leaves the list empty.                         *)
(***************************************************************************)
LoadOrder == <<"statuslabels", "manufacturers", "categories", "locations", "companies",
               "models", "hardware", "users">>
\* an order that goes to the user sync without fetching the users
AfterLoadWithoutUsers(ep) ==
    IF ep \in {"hardware", "users"} THEN "sync_users"
    ELSE LoadOrder[1 + CHOOSE i \in DOMAIN LoadOrder : LoadOrder[i] = ep]
AfterLoad(ep) ==
    IF ep = "users" THEN "sync_users"
    ELSE LoadOrder[1 + CHOOSE i \in DOMAIN LoadOrder : LoadOrder[i] = ep]

NameIndex(names) == DictFrom([i \in DOMAIN names |-> LowerStr(names[i])], names)

ModelIndex(models) ==
    LET ok == SelectSeq(models, LAMBDA m : m.manufacturer # NONE /\ m.category # NONE)
    IN  DictFrom([i \in DOMAIN ok |->
                    <<LowerStr(StripStr(ok[i].name)), ok[i].manufacturer, ok[i].category>>],
                 ok)

\* one hardware row of the snapshot -> its cache record
AssetCacheRecord(key, asset) ==
    [id |-> key,
     last_report_time |-> LastReportTimeFromNotes(asset.notes),
     checked_out_to_id |-> IF asset.assigned.type = "user" THEN asset.assigned.id ELSE NONE]

\* notes.split('\n') on a null notes field raises AttributeError
NotesBreakLoad(hardware) == \E k \in DOMAIN hardware : hardware[k].notes = NullNotes

AssetIndex(hardware) == [k \in DOMAIN hardware |-> AssetCacheRecord(k, hardware[k])]

UserCacheRecord(user) ==
    [id |-> user.id,
     username |-> IF Falsy(user.username) THEN NONE ELSE LowerStr(StripStr(user.username)),
     email |-> IF Falsy(user.email) THEN "" ELSE LowerStr(StripStr(user.email)),
     employee_num |-> IF Falsy(user.employee_num) THEN NONE ELSE StripStr(user.employee_num)]

RECURSIVE UserIndex(_)
UserIndex(users) ==
    IF users = <<>> THEN EmptyDict
    ELSE LET n == Len(users)
             u == users[n]
             rest == UserIndex(SubSeq(users, 1, n - 1))
             byNum == IF Falsy(u.employee_num) THEN rest
                      ELSE (StripStr(u.employee_num) :> UserCacheRecord(u)) @@ rest
         IN  IF Falsy(u.username) THEN byNum
             ELSE (LowerStr(StripStr(u.username)) :> UserCacheRecord(u)) @@ byNum

Abort(why) ==
    /\ pc' = "aborted"
    /\ halted' = why

Crash(site) ==
    /\ pc' = "crashed"
    /\ halted' = site

\* a check of the collection alone, not of the two labels the run needs
StatusLabelFailureWhenEmpty(rows, statuses) ==
    IF rows = <<>> THEN "no status labels" ELSE ""

\* the three fatal checks on the status labels ("" when all pass)
StatusLabelFailure(rows, statuses) ==
    IF rows = <<>> THEN "no status labels"
    ELSE IF Get(statuses, LowerStr(DEFAULT_STATUS_LABEL)) = NONE
    THEN "default status label"
    ELSE IF Get(statuses, LowerStr(CHECKED_OUT_STATUS_LABEL)) = NONE
    THEN "checked out status label"
    ELSE ""

LoadStatusLabels(rows) ==
    LET statuses == NameIndex(rows)
    IN  /\ snipeit_statuses' = statuses
        /\ IF StatusLabelFailure(rows, statuses) # ""
           THEN Abort(StatusLabelFailure(rows, statuses))
           ELSE pc' = "manufacturers" /\ UNCHANGED halted
        /\ UNCHANGED <<snipeit_manufacturers, snipeit_categories, snipeit_models,
                       snipeit_locations, snipeit_companies, snipeit_assets, snipeit_users>>

LoadSnapshot ==
    /\ pc \in Range(LoadOrder)
    /\ \E outcome \in Outcomes :
        /\ Spend(outcome)
        /\ Log("load", "GET", <<pc, "*">>)
        /\ LET got(rows) == IF outcome = "ok" THEN rows ELSE <<>>
           IN  CASE pc = "statuslabels" -> LoadStatusLabels(got(r_statuslabels))
                 [] pc = "hardware" ->
                      /\ IF outcome = "ok" /\ NotesBreakLoad(r_hardware)
                         THEN Crash("load hardware") /\ UNCHANGED snipeit_assets
                         ELSE /\ pc' = AfterLoad(pc)
                              /\ snipeit_assets' =
                                    IF outcome = "ok" THEN AssetIndex(r_hardware) ELSE EmptyDict
                              /\ UNCHANGED halted
                      /\ UNCHANGED <<taxonomyVars, snipeit_users>>
                 [] OTHER ->
                      /\ pc' = AfterLoad(pc)
                      /\ snipeit_manufacturers' =
                            IF pc = "manufacturers" THEN NameIndex(got(r_manufacturers))
                            ELSE snipeit_manufacturers
                      /\ snipeit_categories' =
                            IF pc = "categories" THEN NameIndex(got(r_categories))
                            ELSE snipeit_categories
                      /\ snipeit_locations' =
                            IF pc = "locations" THEN NameIndex(got(r_locations))
                            ELSE snipeit_locations
                      /\ snipeit_companies' =
                            IF pc = "companies" THEN NameIndex(got(r_companies))
                            ELSE snipeit_companies
                      /\ snipeit_models' =
                            IF pc = "models" THEN ModelIndex(got(r_models)) ELSE snipeit_models
                      /\ snipeit_users' =
                            IF pc = "users" THEN UserIndex(got(r_users)) ELSE snipeit_users
                      /\ UNCHANGED <<halted, snipeit_statuses, snipeit_assets>>
    /\ UNCHANGED <<passNo, checkout_sets_status, remoteVars, inputVars, fetchVars, feedVars,
                   directory_data_for_user_lookup, multi_user_admins_data, dirIdx, todo,
                   resolveVars, deviceVars>>


(***************************************************************************)
(* Phase 1: sync_directory_users_to_snipeit, one directory row.            *)
(* The remote answers a create with 'already been taken' (a non-2xx        *)
(* answer, as the wrappers expect) when the username exists.               *)
(***************************************************************************)
RowComplete(row) ==
    /\ ~Falsy(row.EmployeeID)
    /\ ~Falsy(row.EmployeeNetId)
    /\ ~Falsy(row.FirstName)
    /\ ~Falsy(row.LastName)
    /\ ~Falsy(row.EmployeeEmailAddress)

\* a duplicate check that looks at the Employee-ID alone
DuplicateByEmployeeId(users, employee_id, employee_net_id, email) ==
    employee_id \in DOMAIN users

DuplicateFound(users, employee_id, employee_net_id, email) ==
    \/ employee_id \in DOMAIN users
    \/ \E k \in DOMAIN users :
          ~Falsy(users[k].username) /\ LowerStr(users[k].username) = LowerStr(employee_net_id)
    \/ \E k \in DOMAIN users :
          ~Falsy(users[k].email) /\ LowerStr(users[k].email) = LowerStr(email)

UsernameTaken(users, username) ==
    \E i \in DOMAIN users : LowerStr(users[i].username) = LowerStr(username)

CacheNewUser(users, employee_id, employee_net_id, email, new_user_id) ==
    LET rec == [id |-> new_user_id, username |-> LowerStr(employee_net_id),
                email |-> LowerStr(email), employee_num |-> employee_id]
        byNum == (employee_id :> rec) @@ users
    IN  IF LowerStr(employee_id) # LowerStr(employee_net_id)
        THEN (LowerStr(employee_net_id) :> rec) @@ byNum
        ELSE byNum

SyncUserRow ==
    /\ pc = "sync_users"
    /\ dirIdx < Len(directory_file)
    /\ LET row == directory_file[dirIdx + 1]
           employee_id == StripStr(row.EmployeeID)
           employee_net_id == StripStr(row.EmployeeNetId)
           email == StripStr(row.EmployeeEmailAddress)
       IN  IF ~RowComplete(row)
           THEN /\ dirIdx' = dirIdx + 1
                /\ UNCHANGED <<directory_data_for_user_lookup, snipeit_users, r_users,
                               calls, faults_left>>
           ELSE /\ directory_data_for_user_lookup' = Append(directory_data_for_user_lookup, row)
                /\ IF DuplicateFound(snipeit_users, employee_id, employee_net_id, email)
                   THEN /\ dirIdx' = dirIdx + 1
                        /\ UNCHANGED <<snipeit_users, r_users, calls, faults_left>>
                   ELSE \E outcome \in Outcomes :
                        /\ Spend(outcome)
                        /\ Log("sync_users", "POST", <<"users", employee_net_id>>)
                        /\ IF outcome = "ok" /\ ~UsernameTaken(r_users, employee_net_id)
                           THEN /\ r_users' = Append(r_users,
                                      [id |-> employee_net_id, username |-> employee_net_id,
                                       employee_num |-> employee_id, email |-> email])
                                /\ snipeit_users' = CacheNewUser(snipeit_users, employee_id,
                                                        employee_net_id, email, employee_net_id)
                                /\ dirIdx' = dirIdx + 1
                           ELSE /\ UNCHANGED <<r_users, snipeit_users>>
                                \* response.json() raises inside the wrapper's handler; the
                                \* 'except Exception' of the row loop ends the directory
                                /\ dirIdx' = IF outcome = "http_nonjson"
                                             THEN Len(directory_file) ELSE dirIdx + 1
    /\ UNCHANGED <<pc, passNo, halted, checkout_sets_status, r_statuslabels, r_locations,
                   r_companies, r_manufacturers, r_categories, r_models, r_hardware,
                   inputVars, fetchVars, taxonomyVars, snipeit_assets, feedVars,
                   multi_user_admins_data, todo, resolveVars, deviceVars>>

StartFeed ==
    /\ pc = "sync_users"
    /\ dirIdx = Len(directory_file)
    /\ pc' = "read_feed"
    /\ UNCHANGED <<runVars, remoteVars, inputVars, fetchVars, taxonomyVars, snipeit_assets, feedVars,
                   identityVars, todo, resolveVars, deviceVars>>

(***************************************************************************)
(* Taxonomy Upsert Resolver: manufacturers, then models.                   *)
(***************************************************************************)
\* Python's order of the names that get sorted
StrOrder == <<"Acme", "DELL", "Dell", "dell", "desktop", "kiosk", "laptop", "m1", "m2">>
StrRank(x) == CHOOSE i \in DOMAIN StrOrder : StrOrder[i] = x

NameBefore(a, b) == StrRank(a) < StrRank(b)

RECURSIVE SortNames(_)
SortNames(S) ==
    IF S = {} THEN <<>>
    ELSE LET first == CHOOSE x \in S : \A y \in S : x = y \/ NameBefore(x, y)
         IN  <<first>> \o SortNames(S \ {first})

ManufacturersOfFeed(data) ==
    {StripStr(data[i].row.Manufacturer) : i \in {j \in DOMAIN data :
                                                   ~Falsy(data[j].row.Manufacturer)}}

EndFeed ==
    /\ pc = "read_feed"
    /\ rowIdx = Len(feed)
    /\ todo' = SortNames(ManufacturersOfFeed(bigfix_data))
    /\ pc' = "populate_manufacturers"
    /\ UNCHANGED <<runVars, remoteVars, inputVars, fetchVars, taxonomyVars, snipeit_assets, feedVars,
                   identityVars, resolveVars, deviceVars>>

NameTaken(names, name) == \E i \in DOMAIN names : LowerStr(names[i]) = LowerStr(name)

\* what create_snipeit_manufacturer / _model / _asset do with a failed request:
\* 'response' is unbound when requests raised, and response.json() raises on a
\* body that is not JSON; both escape the wrapper
CreateWrapperRaises(outcome) == outcome \in {"transport", "http_nonjson"}

PopulateManufacturer ==
    /\ pc = "populate_manufacturers"
    /\ todo # <<>>
    /\ LET manu_name == Head(todo)
       IN  IF LowerStr(manu_name) \in DOMAIN snipeit_manufacturers
           THEN /\ todo' = Tail(todo)
                /\ UNCHANGED <<pc, halted, faults_left, calls, r_manufacturers,
                               snipeit_manufacturers>>
           ELSE \E outcome \in Outcomes :
                /\ Spend(outcome)
                /\ Log("populate_manufacturers", "POST", <<"manufacturers", manu_name>>)
                /\ IF CreateWrapperRaises(outcome)
                   THEN Crash("create_snipeit_manufacturer")
                        /\ UNCHANGED <<todo, r_manufacturers, snipeit_manufacturers>>
                   ELSE /\ todo' = Tail(todo)
                        /\ UNCHANGED <<pc, halted>>
                        /\ IF outcome = "ok" /\ ~NameTaken(r_manufacturers, manu_name)
                           THEN /\ r_manufacturers' = Append(r_manufacturers, manu_name)
                                /\ snipeit_manufacturers' =
                                      (LowerStr(manu_name) :> manu_name) @@ snipeit_manufacturers
                           ELSE UNCHANGED <<r_manufacturers, snipeit_manufacturers>>
    /\ UNCHANGED <<passNo, checkout_sets_status, r_statuslabels, r_locations, r_companies,
                   r_categories, r_models, r_users, r_hardware, inputVars, fetchVars,
                   snipeit_statuses, snipeit_categories, snipeit_models, snipeit_locations,
                   snipeit_companies, snipeit_assets, feedVars, identityVars, resolveVars,
                   deviceVars>>

\* model_csv_key of a device
ModelCsvKey(row) ==
    <<LowerStr(StripStr(row.Model)), LowerStr(StripStr(row.Manufacturer)),
      LowerStr(StripStr(row.DeviceType))>>

\* the category a model is collected under: the device's, else the default
CategoryIdForModel(categories, category_name) ==
    IF Get(categories, LowerStr(category_name)) # NONE
    THEN Get(categories, LowerStr(category_name))
    ELSE Get(categories, LowerStr(DEFAULT_CATEGORY_NAME))

\* bigfix_models_to_process: key -> model data, from the first device that has
\* the key and whose manufacturer and category resolve
ModelsToProcess(data, manufacturers, categories) ==
    LET usable == {i \in DOMAIN data :
                     /\ Get(manufacturers, LowerStr(StripStr(data[i].row.Manufacturer))) # NONE
                     /\ CategoryIdForModel(categories, StripStr(data[i].row.DeviceType)) # NONE}
        keys == {ModelCsvKey(data[i].row) : i \in usable}
        firstOf(k) == Min({i \in usable : ModelCsvKey(data[i].row) = k})
    IN  [k \in keys |->
            [name |-> StripStr(data[firstOf(k)].row.Model),
             manufacturer_id |-> Get(manufacturers,
                                     LowerStr(StripStr(data[firstOf(k)].row.Manufacturer))),
             category_id |-> CategoryIdForModel(categories,
                                                StripStr(data[firstOf(k)].row.DeviceType))]]

KeyBefore(a, b) ==
    \/ StrRank(a[1]) < StrRank(b[1])
    \/ a[1] = b[1] /\ StrRank(a[2]) < StrRank(b[2])
    \/ a[1] = b[1] /\ a[2] = b[2] /\ StrRank(a[3]) < StrRank(b[3])

RECURSIVE SortKeys(_)
SortKeys(S) ==
    IF S = {} THEN <<>>
    ELSE LET first == CHOOSE x \in S : \A y \in S : x = y \/ KeyBefore(x, y)
         IN  <<first>> \o SortKeys(S \ {first})

EndManufacturers ==
    /\ pc = "populate_manufacturers"
    /\ todo = <<>>
    /\ LET models == ModelsToProcess(bigfix_data, snipeit_manufacturers, snipeit_categories)
           order == SortKeys(DOMAIN models)
       IN  todo' = [i \in DOMAIN order |-> models[order[i]]]
    /\ pc' = "populate_models"
    /\ UNCHANGED <<runVars, remoteVars, inputVars, fetchVars, taxonomyVars, snipeit_assets, feedVars,
                   identityVars, resolveVars, deviceVars>>

ModelTaken(models, name, manufacturer_id, category_id) ==
    \E i \in DOMAIN models :
        /\ LowerStr(models[i].name) = LowerStr(name)
        /\ models[i].manufacturer = manufacturer_id
        /\ models[i].category = category_id

PopulateModel ==
    /\ pc = "populate_models"
    /\ todo # <<>>
    /\ LET model_data == Head(todo)
           key == <<LowerStr(model_data.name), model_data.manufacturer_id,
                    model_data.category_id>>
           new_model == [name |-> model_data.name,
                         manufacturer |-> model_data.manufacturer_id,
                         category |-> model_data.category_id]
       IN  IF key \in DOMAIN snipeit_models
           THEN /\ todo' = Tail(todo)
                /\ UNCHANGED <<pc, halted, faults_left, calls, r_models, snipeit_models>>
           ELSE \E outcome \in Outcomes :
                /\ Spend(outcome)
                /\ Log("populate_models", "POST", <<"models", model_data.name>>)
                /\ IF CreateWrapperRaises(outcome)
                   THEN Crash("create_snipeit_model")
                        /\ UNCHANGED <<todo, r_models, snipeit_models>>
                   ELSE /\ todo' = Tail(todo)
                        /\ UNCHANGED <<pc, halted>>
                        /\ IF /\ outcome = "ok"
                              /\ ~ModelTaken(r_models, model_data.name,
                                             model_data.manufacturer_id, model_data.category_id)
                           THEN /\ r_models' = Append(r_models, new_model)
                                /\ snipeit_models' = (key :> new_model) @@ snipeit_models
                           ELSE UNCHANGED <<r_models, snipeit_models>>
    /\ UNCHANGED <<passNo, checkout_sets_status, r_statuslabels, r_locations, r_companies,
                   r_manufacturers, r_categories, r_users, r_hardware, inputVars, fetchVars,
                   snipeit_statuses, snipeit_manufacturers, snipeit_categories,
                   snipeit_locations, snipeit_companies, snipeit_assets, feedVars,
                   identityVars, resolveVars, deviceVars>>


(***************************************************************************)
(* multi_user_admins.csv.  main() never binds multi_user_admins_data       *)
(* before the try block: the append of the first valid rule, and the       *)
(* len() after a file without one, raise UnboundLocalError, which the      *)
(* 'except Exception' of the block answers with an empty list; a missing   *)
(* file gives the empty list too.                                          *)
(***************************************************************************)
AdminsLoaded(file) == <<>>

LoadAdmins ==
    /\ pc = "populate_models"
    /\ todo = <<>>
    /\ multi_user_admins_data' = AdminsLoaded(admins_file)
    /\ pc' = "precheck"
    /\ UNCHANGED <<runVars, remoteVars, inputVars, fetchVars, taxonomyVars, snipeit_assets, feedVars,
                   directory_data_for_user_lookup, snipeit_users, dirIdx, todo,
                   resolveVars, deviceVars>>

default_status_id == Get(snipeit_statuses, LowerStr(DEFAULT_STATUS_LABEL))
checked_out_status_id == Get(snipeit_statuses, LowerStr(CHECKED_OUT_STATUS_LABEL))
checkin_status_id == Get(snipeit_statuses, LowerStr(DEFAULT_STATUS_LABEL))
default_location_id == Get(snipeit_locations, LowerStr(DEFAULT_LOCATION_NAME))
target_company_id == Get(snipeit_companies, LowerStr(TARGET_COMPANY_NAME))

\* a check of the default location alone
PrecheckFailureLocationOnly(location_id, company_id) ==
    IF location_id = NONE THEN "default location" ELSE ""

\* the two fatal checks before the device loop ("" when both pass)
PrecheckFailure(location_id, company_id) ==
    IF location_id = NONE THEN "default location"
    ELSE IF company_id = NONE THEN "target company"
    ELSE ""

Precheck ==
    /\ pc = "precheck"
    /\ IF PrecheckFailure(default_location_id, target_company_id) # ""
       THEN Abort(PrecheckFailure(default_location_id, target_company_id))
       ELSE pc' = "next_device" /\ UNCHANGED halted
    /\ UNCHANGED <<passNo, faults_left, checkout_sets_status, calls, remoteVars, inputVars, fetchVars,
                   taxonomyVars, snipeit_assets, feedVars, identityVars, todo, resolveVars,
                   deviceVars>>

(***************************************************************************)
(* Asset Reconciliation State Machine: the loop over bigfix_data.          *)
(***************************************************************************)
CurrentKey == bigfix_data[devIdx].key
bigfix_last_report_time == bigfix_data[devIdx].parsed_last_report_time

manufacturer_id(row) == Get(snipeit_manufacturers, LowerStr(StripStr(row.Manufacturer)))
category_id(row) == Get(snipeit_categories, LowerStr(StripStr(row.DeviceType)))
model_key(row) == <<LowerStr(StripStr(row.Model)), manufacturer_id(row), category_id(row)>>
model_id(row) == snipeit_models[model_key(row)]

\* a gate that does not look at the model
TaxonomyWithoutModel(row) ==
    /\ manufacturer_id(row) # NONE
    /\ category_id(row) # NONE

\* if not all([manufacturer_id, category_id, model_id]): skip the device
TaxonomyResolved(row) ==
    /\ manufacturer_id(row) # NONE
    /\ category_id(row) # NONE
    /\ model_key(row) \in DOMAIN snipeit_models

\* bigfix_last_report_time > existing_snipeit_asset['last_report_time']
FeedIsNewer(feed_time, cached_time) == feed_time > cached_time

ResetDeviceLocals ==
    /\ snipeit_target_user_info' = NoUser
    /\ user_name_for_assignment' = NONE
    /\ best_fallback_netid' = NONE
    /\ evaluated' = {}
    /\ current_notes_on_snipeit' = EmptyNotes
    /\ current_snipeit_status' = NONE
    /\ current_snipeit_assigned_to_id' = NONE

NextDevice ==
    /\ pc = "next_device"
    /\ ResetDeviceLocals
    /\ IF devIdx = Len(bigfix_data)
       THEN /\ pc' = "summary"
            /\ UNCHANGED <<devIdx, assets_skipped_final_count>>
       ELSE LET d == bigfix_data[devIdx + 1]
            IN  /\ devIdx' = devIdx + 1
                /\ IF ~TaxonomyResolved(d.row)
                   THEN /\ assets_skipped_final_count' = assets_skipped_final_count + 1
                        /\ pc' = "next_device"
                   ELSE /\ UNCHANGED assets_skipped_final_count
                        /\ pc' = IF d.key \in DOMAIN snipeit_assets
                                 THEN IF FeedIsNewer(d.parsed_last_report_time,
                                                     snipeit_assets[d.key].last_report_time)
                                      THEN "read_notes" ELSE "resolve"
                                 ELSE "create_asset"
    /\ UNCHANGED <<runVars, remoteVars, inputVars, fetchVars, taxonomyVars, snipeit_assets, feedVars,
                   identityVars, todo>>

\* the frame of a step of the device loop that makes one remote call
DeviceFrame ==
    UNCHANGED <<passNo, checkout_sets_status, r_statuslabels, r_locations, r_companies,
                r_manufacturers, r_categories, r_models, r_users, inputVars, fetchVars, taxonomyVars,
                feedVars, identityVars, todo, resolveVars, devIdx>>

Skip(n) == assets_skipped_final_count' = assets_skipped_final_count + n

\* get_asset_details_from_snipeit_raw_notes, then the decision to write
ReadNotes ==
    /\ pc = "read_notes"
    /\ \E outcome \in Outcomes :
        /\ Spend(outcome)
        /\ Log("read_notes", "GET", <<"hardware", CurrentKey>>)
        /\ LET notes == IF outcome = "ok" THEN r_hardware[CurrentKey].notes ELSE EmptyNotes
           IN  IF notes = NullNotes
               THEN /\ Crash("update_bigfix_last_report_in_notes")
                    /\ UNCHANGED <<current_notes_on_snipeit, snipeit_assets>>
               ELSE /\ current_notes_on_snipeit' = notes
                    /\ UNCHANGED halted
                    /\ IF update_bigfix_last_report_in_notes(notes, bigfix_last_report_time)
                            # notes
                       THEN pc' = "write_notes" /\ UNCHANGED snipeit_assets
                       ELSE /\ pc' = "resolve"
                            /\ snipeit_assets' =
                                  [snipeit_assets EXCEPT ![CurrentKey].last_report_time =
                                                             bigfix_last_report_time]
    /\ DeviceFrame
    /\ UNCHANGED <<r_hardware, current_snipeit_status, current_snipeit_assigned_to_id,
                   assets_skipped_final_count>>

\* update_asset_status: the PUT; its handler reads 'response', which is unbound
\* when requests raised
UpdateWrapperRaises(outcome) == outcome = "transport"

\* the notes a status update leaves on the asset: update_asset_status sends its
\* 'notes' argument as the asset's notes field
StatusUpdateNotes(text) == <<TextLine(text)>>

WriteNotes ==
    /\ pc = "write_notes"
    /\ \E outcome \in Outcomes :
        /\ Spend(outcome)
        /\ Log("write_notes", "PUT", <<"hardware", CurrentKey>>)
        /\ IF UpdateWrapperRaises(outcome)
           THEN Crash("update_asset_status") /\ UNCHANGED <<r_hardware, snipeit_assets>>
           ELSE /\ pc' = "resolve"
                /\ UNCHANGED halted
                /\ r_hardware' =
                      IF outcome = "ok"
                      THEN [r_hardware EXCEPT ![CurrentKey].notes =
                               update_bigfix_last_report_in_notes(current_notes_on_snipeit,
                                                                  bigfix_last_report_time)]
                      ELSE r_hardware
                /\ snipeit_assets' = [snipeit_assets EXCEPT ![CurrentKey].last_report_time =
                                                                bigfix_last_report_time]
    /\ DeviceFrame
    /\ UNCHANGED <<current_notes_on_snipeit, current_snipeit_status,
                   current_snipeit_assigned_to_id, assets_skipped_final_count>>

NewAsset(row, time) ==
    [asset_tag |-> StripStr(row.Serial),
     name |-> ComputerNameForAsset(row),
     status |-> default_status_id,
     assigned |-> Unassigned,
     notes |-> <<MarkerLine(FormatIso(time))>>]

CreateAsset ==
    /\ pc = "create_asset"
    /\ \E outcome \in Outcomes :
        /\ Spend(outcome)
        /\ Log("create_asset", "POST", <<"hardware", CurrentKey>>)
        /\ IF CreateWrapperRaises(outcome)
           THEN /\ Crash("create_snipeit_asset")
                /\ UNCHANGED <<r_hardware, snipeit_assets, assets_skipped_final_count>>
           ELSE IF outcome = "ok" /\ CurrentKey \notin DOMAIN r_hardware
           THEN /\ r_hardware' = (CurrentKey :> NewAsset(CurrentRow, bigfix_last_report_time))
                                    @@ r_hardware
                /\ snipeit_assets' =
                      (CurrentKey :> [id |-> CurrentKey,
                                      last_report_time |-> bigfix_last_report_time,
                                      checked_out_to_id |-> NONE]) @@ snipeit_assets
                /\ pc' = "resolve"
                /\ UNCHANGED <<halted, assets_skipped_final_count>>
           ELSE /\ Skip(1)
                /\ pc' = "next_device"
                /\ UNCHANGED <<halted, r_hardware, snipeit_assets>>
    /\ DeviceFrame
    /\ UNCHANGED <<current_notes_on_snipeit, current_snipeit_status,
                   current_snipeit_assigned_to_id>>


\* get_asset_details_from_snipeit: (status id, assignee id); the id of a
\* location or of an asset the record is assigned to is returned like a user's
AssignedToId(asset) ==
    IF asset.assigned.type \in {"user", "location", "asset"} THEN asset.assigned.id ELSE NONE

LiveDetails(outcome) ==
    IF outcome = "ok"
    THEN [status |-> r_hardware[CurrentKey].status,
          assigned_to_id |-> AssignedToId(r_hardware[CurrentKey])]
    ELSE [status |-> NONE, assigned_to_id |-> NONE]

snipeit_user_id == snipeit_target_user_info.id

\* a test of the cached assignment in place of the live one
AlreadyCorrectInCache(live) ==
    snipeit_assets[CurrentKey].checked_out_to_id = snipeit_user_id

\* "already checked out to the correct user" of the first live check
AlreadyCorrect(live) ==
    live.assigned_to_id = snipeit_user_id /\ live.status = checked_out_status_id

\* a workflow that checks out without looking at the assignee
AlwaysCheckout(live) == "checkout"

\* where the workflow goes after a live state was read and found ready
AfterReady(live) == IF live.assigned_to_id # NONE THEN "checkin" ELSE "checkout"

Refetch(site, outcome) ==
    /\ Spend(outcome)
    /\ Log(site, "GET", <<"hardware", CurrentKey>>)
    /\ current_snipeit_status' = LiveDetails(outcome).status
    /\ current_snipeit_assigned_to_id' = LiveDetails(outcome).assigned_to_id

FetchLive ==
    /\ pc = "fetch_live"
    /\ \E outcome \in Outcomes :
        /\ Refetch("fetch_live", outcome)
        /\ pc' = IF AlreadyCorrect(LiveDetails(outcome)) THEN "next_device"
                 ELSE IF LiveDetails(outcome).status # checkin_status_id THEN "force_ready"
                 ELSE AfterReady(LiveDetails(outcome))
    /\ DeviceFrame
    /\ UNCHANGED <<halted, r_hardware, snipeit_assets, current_notes_on_snipeit,
                   assets_skipped_final_count>>

\* update_asset_status(asset_id, checkin_status_id, notes=status_update_notes)
ForceReady ==
    /\ pc = "force_ready"
    /\ \E outcome \in Outcomes :
        /\ Spend(outcome)
        /\ Log("force_ready", "PUT", <<"hardware", CurrentKey>>)
        /\ IF UpdateWrapperRaises(outcome)
           THEN Crash("update_asset_status")
                /\ UNCHANGED <<r_hardware, assets_skipped_final_count>>
           ELSE IF outcome = "ok"
           THEN /\ r_hardware' = [r_hardware EXCEPT
                      ![CurrentKey].status = checkin_status_id,
                      ![CurrentKey].notes = StatusUpdateNotes("Automatic status update")]
                /\ pc' = "verify_ready"
                /\ UNCHANGED <<halted, assets_skipped_final_count>>
           ELSE /\ Skip(1)
                /\ pc' = "next_device"
                /\ UNCHANGED <<halted, r_hardware>>
    /\ DeviceFrame
    /\ UNCHANGED <<snipeit_assets, current_notes_on_snipeit, current_snipeit_status,
                   current_snipeit_assigned_to_id>>

VerifyReady ==
    /\ pc = "verify_ready"
    /\ \E outcome \in Outcomes :
        /\ Refetch("verify_ready", outcome)
        /\ IF LiveDetails(outcome).status # checkin_status_id
           THEN Skip(1) /\ pc' = "next_device"
           ELSE pc' = AfterReady(LiveDetails(outcome)) /\ UNCHANGED assets_skipped_final_count
    /\ DeviceFrame
    /\ UNCHANGED <<halted, r_hardware, snipeit_assets, current_notes_on_snipeit>>

\* checkin_asset / checkout_asset_to_user with a failed request.  With no
\* response the handler reads the unbound 'response'.  With a body that is not
\* JSON, response.json() raises; whether that is a RequestException (caught,
\* False is returned) depends on the version of requests.
CheckWrapperRaises(outcome, json_error_is_caught) ==
    \/ outcome = "transport"
    \/ outcome = "http_nonjson" /\ ~json_error_is_caught

Checkin ==
    /\ pc = "checkin"
    /\ \E outcome \in Outcomes, json_error_is_caught \in BOOLEAN :
        /\ Spend(outcome)
        /\ Log("checkin", "POST", <<"checkin", CurrentKey>>)
        /\ IF CheckWrapperRaises(outcome, json_error_is_caught)
           THEN Crash("checkin_asset")
                /\ UNCHANGED <<r_hardware, assets_skipped_final_count>>
           ELSE IF outcome = "ok"
           THEN /\ r_hardware' = [r_hardware EXCEPT
                      ![CurrentKey].status = checkin_status_id,
                      ![CurrentKey].assigned = Unassigned]
                /\ pc' = "verify_checkin"
                /\ UNCHANGED <<halted, assets_skipped_final_count>>
           ELSE /\ Skip(1)
                /\ pc' = "next_device"
                /\ UNCHANGED <<halted, r_hardware>>
    /\ DeviceFrame
    /\ UNCHANGED <<snipeit_assets, current_notes_on_snipeit, current_snipeit_status,
                   current_snipeit_assigned_to_id>>

VerifyCheckin ==
    /\ pc = "verify_checkin"
    /\ \E outcome \in Outcomes :
        /\ Refetch("verify_checkin", outcome)
        /\ IF /\ LiveDetails(outcome).status = checkin_status_id
              /\ LiveDetails(outcome).assigned_to_id = NONE
           THEN pc' = "checkout" /\ UNCHANGED assets_skipped_final_count
           ELSE Skip(1) /\ pc' = "next_device"
    /\ DeviceFrame
    /\ UNCHANGED <<halted, r_hardware, snipeit_assets, current_notes_on_snipeit>>

\* the remote's checkout: the assignee is set; the status label moves to
\* 'Deployed' when the remote does that implicitly
RemoteCheckout(asset, user_id) ==
    [asset EXCEPT !.assigned = AssignedTo("user", user_id),
                  !.status = IF checkout_sets_status THEN checked_out_status_id ELSE @]

Checkout ==
    /\ pc = "checkout"
    /\ \E outcome \in Outcomes, json_error_is_caught \in BOOLEAN :
        /\ Spend(outcome)
        /\ Log("checkout", "POST", <<"checkout", CurrentKey>>)
        /\ IF CheckWrapperRaises(outcome, json_error_is_caught)
           THEN Crash("checkout_asset_to_user")
                /\ UNCHANGED <<r_hardware, snipeit_assets>>
           ELSE IF outcome = "ok"
           THEN /\ r_hardware' = [r_hardware EXCEPT
                      ![CurrentKey] = RemoteCheckout(@, snipeit_user_id)]
                /\ snipeit_assets' = [snipeit_assets EXCEPT
                      ![CurrentKey].checked_out_to_id = snipeit_user_id]
                /\ pc' = "verify_checkout"
                /\ UNCHANGED halted
           ELSE /\ snipeit_assets' = [snipeit_assets EXCEPT
                      ![CurrentKey].checked_out_to_id = current_snipeit_assigned_to_id]
                /\ pc' = "next_device"
                /\ UNCHANGED <<halted, r_hardware>>
    /\ DeviceFrame
    /\ UNCHANGED <<current_notes_on_snipeit, current_snipeit_status,
                   current_snipeit_assigned_to_id, assets_skipped_final_count>>

\* a verification that looks at the assignee alone
CheckoutConfirmedByAssignee(live) == live.assigned_to_id = snipeit_user_id

\* "Checkout confirmed": the status and the assignee of the re-fetched asset
CheckoutConfirmed(live) ==
    live.status = checked_out_status_id /\ live.assigned_to_id = snipeit_user_id

\* a repair that is made whatever the verification showed
AlwaysCorrective(confirmed) == "corrective"

\* after the verification: done, or the one corrective status update
AfterCheckoutVerified(confirmed) == IF confirmed THEN "next_device" ELSE "corrective"

VerifyCheckout ==
    /\ pc = "verify_checkout"
    /\ \E outcome \in Outcomes :
        /\ Refetch("verify_checkout", outcome)
        /\ pc' = AfterCheckoutVerified(CheckoutConfirmed(LiveDetails(outcome)))
    /\ DeviceFrame
    /\ UNCHANGED <<halted, r_hardware, snipeit_assets, current_notes_on_snipeit,
                   assets_skipped_final_count>>

\* update_asset_status(asset_id, checked_out_status_id, update_notes)
CorrectiveUpdate ==
    /\ pc = "corrective"
    /\ \E outcome \in Outcomes :
        /\ Spend(outcome)
        /\ Log("corrective", "PUT", <<"hardware", CurrentKey>>)
        /\ IF UpdateWrapperRaises(outcome)
           THEN Crash("update_asset_status") /\ UNCHANGED r_hardware
           ELSE /\ pc' = "next_device"
                /\ UNCHANGED halted
                /\ r_hardware' =
                      IF outcome = "ok"
                      THEN [r_hardware EXCEPT
                              ![CurrentKey].status = checked_out_status_id,
                              ![CurrentKey].notes = StatusUpdateNotes("Forced status update")]
                      ELSE r_hardware
    /\ DeviceFrame
    /\ UNCHANGED <<snipeit_assets, current_notes_on_snipeit, current_snipeit_status,
                   current_snipeit_assigned_to_id, assets_skipped_final_count>>


(***************************************************************************)
(* The run repeated: the summary of a run that no fault disturbed is       *)
(* followed by a second run of the script, with fresh memory, on the same  *)
(* files and on the remote state the first run left.                       *)
(***************************************************************************)
SecondPass ==
    /\ pc = "summary"
    /\ passNo = 1
    /\ faults_left = MaxFaults
    /\ passNo' = 2
    /\ pc' = "statuslabels"
    /\ snipeit_statuses' = EmptyDict
    /\ snipeit_manufacturers' = EmptyDict
    /\ snipeit_categories' = EmptyDict
    /\ snipeit_models' = EmptyDict
    /\ snipeit_locations' = EmptyDict
    /\ snipeit_companies' = EmptyDict
    /\ snipeit_assets' = EmptyDict
    /\ snipeit_users' = EmptyDict
    /\ directory_data_for_user_lookup' = <<>>
    /\ dirIdx' = 0
    /\ rowIdx' = 0
    /\ bigfix_data' = <<>>
    /\ skipped_serial_count' = 0
    /\ todo' = <<>>
    /\ multi_user_admins_data' = <<>>
    /\ devIdx' = 0
    /\ assets_skipped_final_count' = 0
    /\ UNCHANGED <<halted, faults_left, checkout_sets_status, calls, remoteVars, inputVars, fetchVars,
                   resolveVars, current_notes_on_snipeit, current_snipeit_status,
                   current_snipeit_assigned_to_id>>

(***************************************************************************)
(* Inputs.                                                                 *)
(***************************************************************************)
FeedRow(serial, time_text, user_name, computer_name) ==
    [Serial |-> serial, LastReportTime |-> time_text, UserName |-> user_name,
     ComputerName |-> computer_name, FirefoxUsers |-> <<>>, ChromeUsers |-> <<>>,
     WifiUsers |-> <<>>, Model |-> "M1", Manufacturer |-> "Dell", DeviceType |-> "Laptop"]

DirRow(netid, employee_id, email) ==
    [EmployeeNetId |-> netid, EmployeeID |-> employee_id, FirstName |-> "First",
     LastName |-> "Last", EmployeeEmailAddress |-> email]

RemoteUser(netid, employee_id, email) ==
    [id |-> netid, username |-> netid, employee_num |-> employee_id, email |-> email]

SeqsUpTo(S, n) == UNION {[1..k -> S] : k \in 0..n}

FeedTimes == {FeedTimeText(t) : t \in 1..MaxTime}

DefaultDirectory == <<DirRow("u1", "E1", "u1@nyu.edu"), DirRow("U2 ", "E2", "u2@nyu.edu")>>
DefaultUsers == <<RemoteUser("u1", "E1", "u1@nyu.edu"), RemoteUser("u2", "E2", "u2@nyu.edu")>>
DefaultStatusLabels == <<"Ready to Deploy", "Deployed", "Archived">>
DefaultModel == [name |-> "M1", manufacturer |-> "Dell", category |-> "Laptop"]
NoHardware == [k \in {} |-> NONE]

MemoryInit ==
    /\ snipeit_statuses = EmptyDict
    /\ snipeit_manufacturers = EmptyDict
    /\ snipeit_categories = EmptyDict
    /\ snipeit_models = EmptyDict
    /\ snipeit_locations = EmptyDict
    /\ snipeit_companies = EmptyDict
    /\ snipeit_assets = EmptyDict
    /\ snipeit_users = EmptyDict
    /\ directory_data_for_user_lookup = <<>>
    /\ dirIdx = 0
    /\ rowIdx = 0
    /\ bigfix_data = <<>>
    /\ skipped_serial_count = 0
    /\ todo = <<>>
    /\ multi_user_admins_data = <<>>
    /\ devIdx = 0
    /\ snipeit_target_user_info = NoUser
    /\ user_name_for_assignment = NONE
    /\ best_fallback_netid = NONE
    /\ evaluated = {}
    /\ current_notes_on_snipeit = EmptyNotes
    /\ current_snipeit_status = NONE
    /\ current_snipeit_assigned_to_id = NONE
    /\ assets_skipped_final_count = 0

\* no paginated fetch is under way
NoFetch ==
    /\ fetch_pc = "idle"
    /\ collection = <<>>
    /\ offset = 0
    /\ all_items = <<>>
    /\ page_rows = <<>>
    /\ requested = <<>>
    /\ undelayed = FALSE

RunInit ==
    /\ pc = "statuslabels"
    /\ passNo = 1
    /\ halted = ""
    /\ faults_left = MaxFaults
    /\ checkout_sets_status \in BOOLEAN
    /\ calls = {}

\* the reference data every device of the model needs
DefaultReference ==
    /\ r_statuslabels = DefaultStatusLabels
    /\ r_locations = <<DEFAULT_LOCATION_NAME>>
    /\ r_companies = <<TARGET_COMPANY_NAME>>
    /\ r_manufacturers = <<"Dell">>
    /\ r_categories = <<"Laptop", "Desktop">>
    /\ r_models = <<DefaultModel>>
    /\ r_users = DefaultUsers

\* an existing hardware record of serial S1; ids are per table, so a location
\* may carry the id user u1 carries among the users
ExistingAssets ==
    {[asset_tag |-> "S1", name |-> "PC-A", status |-> st, assigned |-> as, notes |-> n] :
        st \in {"Ready to Deploy", "Deployed", "Archived"},
        as \in {Unassigned, AssignedTo("user", "u1"), AssignedTo("user", "u2"),
                AssignedTo("location", "u1")},
        n \in {<<MarkerLine(FormatIso(1))>>,
               <<TextLine("bought 2024"), MarkerLine(FormatIso(2))>>,
               <<TextLine("bought 2024")>>,
               NullNotes}}

MainRows ==
    {FeedRow(serial, time_text, user_name, "PC-A") :
        serial \in {"S1", "s2", " to be filled by o.e.m. "},
        time_text \in FeedTimes,
        user_name \in {"u1", ""}}

\* display names that follow a convention: a shared machine of the 'LAB-'
\* schema, and 'ENG-<netid>-..' machines of u2, of u3 and of nobody
NamedDevices == {"LAB-01", "ENG-u2-01", "ENG-u3-01", "ENG-KIOSK"}

\* the device side varies, the reference data is complete: one feed row
\* against every hardware record, or several rows against a typical one
InitDevices ==
    /\ DefaultReference
    /\ \/ /\ feed \in {<<row>> : row \in MainRows}
          /\ r_hardware \in {NoHardware} \cup {("S1" :> a) : a \in ExistingAssets}
       \/ /\ feed \in {f \in SeqsUpTo(MainRows, MaxFeed) : Len(f) >= 2}
          /\ r_hardware \in
                {NoHardware,
                 "S1" :> [asset_tag |-> "S1", name |-> "PC-A", status |-> "Deployed",
                          assigned |-> AssignedTo("user", "u2"),
                          notes |-> <<TextLine("bought 2024"), MarkerLine(FormatIso(1))>>]}
       \/ /\ feed \in {<<FeedRow("S1", time_text, "", computer_name)>> :
                        time_text \in FeedTimes \cup {BadTime},
                        computer_name \in NamedDevices}
          /\ r_hardware = NoHardware

\* the reference data varies, the device side is one new device
InitReference ==
    /\ feed \in {<<FeedRow("S1", FeedTimeText(MaxTime), "u1", "PC-A")>>,
                 <<FeedRow(" to be filled by o.e.m. ", FeedTimeText(MaxTime), "u1", "PC-A")>>}
    /\ r_hardware = NoHardware
    /\ \/ /\ r_statuslabels \in {<<>>, <<"Deployed">>, <<"Ready to Deploy">>,
                                 <<"Ready to Deploy", "Deployed">>}
          /\ r_locations \in {<<>>, <<DEFAULT_LOCATION_NAME>>}
          /\ r_companies \in {<<>>, <<TARGET_COMPANY_NAME>>}
          /\ r_manufacturers = <<"Dell">>
          /\ r_categories = <<"Laptop", "Desktop">>
          /\ r_models = <<DefaultModel>>
          /\ r_users = DefaultUsers
       \/ /\ r_statuslabels = DefaultStatusLabels
          /\ r_locations = <<DEFAULT_LOCATION_NAME>>
          /\ r_companies = <<TARGET_COMPANY_NAME>>
          /\ r_manufacturers \in {<<>>, <<"DELL">>, <<" Dell">>}
          /\ r_categories \in {<<"Laptop", "Desktop">>, <<"Desktop">>, <<>>}
          /\ r_models \in {<<>>, <<DefaultModel>>}
          /\ r_users \in {<<>>, <<RemoteUser("u1", "E1", "u1@nyu.edu")>>,
                         <<RemoteUser("u1", "u2", "u1@nyu.edu"),
                           RemoteUser("u2", "E2", "u2@nyu.edu")>>}

Init ==
    /\ NoFetch
    /\ RunInit
    /\ MemoryInit
    /\ directory_file = DefaultDirectory
    /\ admins_file = <<[NameSchema |-> "LAB-", netid |-> "u2"]>>
    /\ (InitDevices \/ InitReference)
    /\ hardware_before = r_hardware

Next ==
    \/ LoadSnapshot
    \/ SyncUserRow
    \/ StartFeed
    \/ ReadFeedRow
    \/ EndFeed
    \/ PopulateManufacturer
    \/ EndManufacturers
    \/ PopulateModel
    \/ LoadAdmins
    \/ Precheck
    \/ NextDevice
    \/ ReadNotes
    \/ WriteNotes
    \/ CreateAsset
    \/ ResolveUser
    \/ FetchLive
    \/ ForceReady
    \/ VerifyReady
    \/ Checkin
    \/ VerifyCheckin
    \/ Checkout
    \/ VerifyCheckout
    \/ CorrectiveUpdate
    \/ SecondPass

Spec == Init /\ [][Next]_vars


(***************************************************************************)
(* A run that has loaded its snapshots and synchronised its users, as      *)
(* main() is when it opens the feed: the starting point of the             *)
(* specifications that look at one phase alone.                            *)
(***************************************************************************)
LoadedAndSynced ==
    /\ passNo = 1
    /\ halted = ""
    /\ faults_left = 0
    /\ checkout_sets_status = TRUE
    /\ calls = {Call("load", "GET", <<LoadOrder[i], "*">>) : i \in DOMAIN LoadOrder}
    /\ hardware_before = r_hardware
    /\ snipeit_statuses = NameIndex(r_statuslabels)
    /\ snipeit_manufacturers = NameIndex(r_manufacturers)
    /\ snipeit_categories = NameIndex(r_categories)
    /\ snipeit_models = ModelIndex(r_models)
    /\ snipeit_locations = NameIndex(r_locations)
    /\ snipeit_companies = NameIndex(r_companies)
    /\ snipeit_assets = AssetIndex(r_hardware)
    /\ snipeit_users = UserIndex(r_users)
    /\ directory_data_for_user_lookup = directory_file
    /\ dirIdx = Len(directory_file)
    /\ todo = <<>>
    /\ multi_user_admins_data = <<>>
    /\ snipeit_target_user_info = NoUser
    /\ user_name_for_assignment = NONE
    /\ best_fallback_netid = NONE
    /\ evaluated = {}
    /\ current_notes_on_snipeit = EmptyNotes
    /\ current_snipeit_status = NONE
    /\ current_snipeit_assigned_to_id = NONE
    /\ assets_skipped_final_count = 0

(***************************************************************************)
(* SpecDedup: the reading of the feed alone.                               *)
(***************************************************************************)
DedupRows ==
    {FeedRow(serial, time_text, "u1", "PC-A") :
        serial \in {"S1", "s1", " S1 ", "s2", "to be filled by o.e.m.", ""},
        time_text \in {NoTime, BadTime} \cup FeedTimes}

InitDedup ==
    /\ NoFetch
    /\ pc = "read_feed"
    /\ DefaultReference
    /\ r_hardware = NoHardware
    /\ directory_file = DefaultDirectory
    /\ admins_file = <<>>
    /\ feed \in SeqsUpTo(DedupRows, MaxRows)
    /\ LoadedAndSynced
    /\ rowIdx = 0
    /\ bigfix_data = <<>>
    /\ skipped_serial_count = 0
    /\ devIdx = 0

NextDedup == ReadFeedRow

SpecDedup == InitDedup /\ [][NextDedup]_vars

(***************************************************************************)
(* SpecResolve: the user resolution of one device alone.  The device has   *)
(* a hardware record whose notes are as recent as the feed, so main()      *)
(* comes to the resolution without a remote call for the device.           *)
(***************************************************************************)
HintRow(user_name, computer_name, firefox, chrome, wifi) ==
    [FeedRow("S1", FeedTimeText(1), user_name, computer_name)
        EXCEPT !.FirefoxUsers = firefox, !.ChromeUsers = chrome, !.WifiUsers = wifi]

\* the parts "a, b".split(',') leaves of the cells of the columns
HintParts == {"u1", "U2 ", "u3", "( Work", "u1@nyu.edu )"}

Directories ==
    {DefaultDirectory,
     <<DirRow("u1", "E1", "u1@nyu.edu"), DirRow("U2 ", "E2", "u2@nyu.edu"),
       DirRow("u3", "E3", "u3@nyu.edu")>>,
     <<DirRow("U2 ", "E2", "u2@nyu.edu")>>,
     <<DirRow("u1", "E1", "u1@nyu.edu")>>}

RemoteUserLists ==
    {<<>>,
     <<RemoteUser("u1", "E1", "u1@nyu.edu")>>,
     DefaultUsers,
     DefaultUsers \o <<RemoteUser("u3", "", "u3@nyu.edu")>>}

\* rows whose primary hint, hostname and auxiliary hints point to different users
PriorityRows ==
    {HintRow(user_name, computer_name, firefox, chrome, <<>>) :
        user_name \in {"", "u1", "U2 ", "u3"},
        computer_name \in {"PC-A", "ENG-u2-01", "ENG-u2", "LAB-01"},
        firefox \in SeqsUpTo({"u1", "U2 "}, MaxParts),
        chrome \in SeqsUpTo({"u1", "U2 "}, MaxParts)}

\* rows without a primary hint, the auxiliary columns filled in every way
PluralityRows ==
    {HintRow("", "PC-A", firefox, chrome, wifi) :
        firefox \in SeqsUpTo(HintParts, MaxParts),
        chrome \in SeqsUpTo(HintParts, MaxParts),
        wifi \in SeqsUpTo(HintParts, MaxParts)}

InitResolve ==
    /\ NoFetch
    /\ pc = "resolve"
    /\ r_statuslabels = DefaultStatusLabels
    /\ r_locations = <<DEFAULT_LOCATION_NAME>>
    /\ r_companies = <<TARGET_COMPANY_NAME>>
    /\ r_manufacturers = <<"Dell">>
    /\ r_categories = <<"Laptop", "Desktop">>
    /\ r_models = <<DefaultModel>>
    /\ r_users \in RemoteUserLists
    /\ r_hardware = ("S1" :> [asset_tag |-> "S1", name |-> "PC-A",
                              status |-> DEFAULT_STATUS_LABEL, assigned |-> Unassigned,
                              notes |-> <<MarkerLine(FormatIso(1))>>])
    /\ directory_file \in Directories
    /\ admins_file = <<>>
    /\ feed \in {<<row>> : row \in PriorityRows \cup PluralityRows}
    /\ LoadedAndSynced
    /\ rowIdx = 1
    /\ bigfix_data = <<[key |-> "S1", row |-> feed[1],
                        parsed_last_report_time |->
                            parse_last_report_time(feed[1].LastReportTime)]>>
    /\ skipped_serial_count = 0
    /\ devIdx = 1

NextResolve == ResolveUser

SpecResolve == InitResolve /\ [][NextResolve]_vars


(***************************************************************************)
(* SpecNotes: the timestamp patch of one existing asset alone.  main() has  *)
(* found the feed's timestamp newer than the one the load recovered from   *)
(* the asset's notes, and reads the notes again.                           *)
(***************************************************************************)
MaxLines == 3

NotesLines ==
    {BlankLine, TextLine("bought 2024"), TextLine(" see ticket "),
     MarkerLine(FormatIso(1)), MarkerLine(BadTime)}

NotesTexts == SeqsUpTo(NotesLines, MaxLines) \ {<<>>}

InitNotes ==
    /\ NoFetch
    /\ pc = "read_notes"
    /\ DefaultReference
    /\ \E notes \in NotesTexts :
          r_hardware = ("S1" :> [asset_tag |-> "S1", name |-> "PC-A",
                                 status |-> DEFAULT_STATUS_LABEL, assigned |-> Unassigned,
                                 notes |-> notes])
    /\ directory_file = DefaultDirectory
    /\ admins_file = <<>>
    /\ feed \in {<<FeedRow("S1", time_text, "", "PC-A")>> : time_text \in FeedTimes}
    /\ LoadedAndSynced
    /\ rowIdx = 1
    /\ bigfix_data = <<[key |-> "S1", row |-> feed[1],
                        parsed_last_report_time |->
                            parse_last_report_time(feed[1].LastReportTime)]>>
    /\ bigfix_data[1].parsed_last_report_time > snipeit_assets["S1"].last_report_time
    /\ skipped_serial_count = 0
    /\ devIdx = 1

NextNotes == ReadNotes \/ WriteNotes

SpecNotes == InitNotes /\ [][NextNotes]_vars


(***************************************************************************)
(* SpecCache: the device loop on one existing asset, with an assignment in *)
(* the in-memory asset cache that is any user or none, whatever the remote *)
(* asset says: the runs that differ only in the cached                     *)
(* 'checked_out_to_id'.  Every remote call is answered.                    *)
(***************************************************************************)
CachedAssignments == {NONE, "u1", "u2"}

InitCache ==
    /\ NoFetch
    /\ pc = "next_device"
    /\ DefaultReference
    /\ r_hardware \in {("S1" :> a) : a \in {e \in ExistingAssets : e.notes # NullNotes}}
    /\ directory_file = DefaultDirectory
    /\ admins_file = <<>>
    /\ feed \in {<<FeedRow("S1", time_text, user_name, "PC-A")>> :
                    time_text \in FeedTimes, user_name \in {"u1", "u2", ""}}
    /\ passNo = 1
    /\ halted = ""
    /\ faults_left = 0
    /\ checkout_sets_status \in BOOLEAN
    /\ calls = {Call("load", "GET", <<LoadOrder[i], "*">>) : i \in DOMAIN LoadOrder}
    /\ hardware_before = r_hardware
    /\ snipeit_statuses = NameIndex(r_statuslabels)
    /\ snipeit_manufacturers = NameIndex(r_manufacturers)
    /\ snipeit_categories = NameIndex(r_categories)
    /\ snipeit_models = ModelIndex(r_models)
    /\ snipeit_locations = NameIndex(r_locations)
    /\ snipeit_companies = NameIndex(r_companies)
    /\ \E cached \in CachedAssignments :
          snipeit_assets = [AssetIndex(r_hardware) EXCEPT !["S1"].checked_out_to_id = cached]
    /\ snipeit_users = UserIndex(r_users)
    /\ directory_data_for_user_lookup = directory_file
    /\ dirIdx = Len(directory_file)
    /\ todo = <<>>
    /\ multi_user_admins_data = <<>>
    /\ snipeit_target_user_info = NoUser
    /\ user_name_for_assignment = NONE
    /\ best_fallback_netid = NONE
    /\ evaluated = {}
    /\ current_notes_on_snipeit = EmptyNotes
    /\ current_snipeit_status = NONE
    /\ current_snipeit_assigned_to_id = NONE
    /\ assets_skipped_final_count = 0
    /\ rowIdx = 1
    /\ bigfix_data = <<[key |-> "S1", row |-> feed[1],
                        parsed_last_report_time |->
                            parse_last_report_time(feed[1].LastReportTime)]>>
    /\ skipped_serial_count = 0
    /\ devIdx = 0

NextCache ==
    \/ NextDevice
    \/ ReadNotes
    \/ WriteNotes
    \/ ResolveUser
    \/ FetchLive
    \/ ForceReady
    \/ VerifyReady
    \/ Checkin
    \/ VerifyCheckin
    \/ Checkout
    \/ VerifyCheckout
    \/ CorrectiveUpdate

SpecCache == InitCache /\ [][NextCache]_vars


(***************************************************************************)
(* SpecSync: the user synchronisation alone, on directories whose rows     *)
(* share NetIDs (up to case), Employee-IDs and emails.                     *)
(***************************************************************************)
MaxDir == 2

SyncRows ==
    {DirRow(netid, employee_id, email) :
        netid \in {"u1", "U1", "u2"},
        employee_id \in {"E1", "E2", ""},
        email \in {"u1@nyu.edu", "u2@nyu.edu"}}

InitSync ==
    /\ NoFetch
    /\ pc = "sync_users"
    /\ r_statuslabels = DefaultStatusLabels
    /\ r_locations = <<DEFAULT_LOCATION_NAME>>
    /\ r_companies = <<TARGET_COMPANY_NAME>>
    /\ r_manufacturers = <<"Dell">>
    /\ r_categories = <<"Laptop", "Desktop">>
    /\ r_models = <<DefaultModel>>
    /\ r_users \in {<<>>, <<RemoteUser("u2", "E2", "u2@nyu.edu")>>}
    /\ r_hardware = NoHardware
    /\ directory_file \in SeqsUpTo(SyncRows, MaxDir)
    /\ admins_file = <<>>
    /\ feed = <<>>
    /\ passNo = 1
    /\ halted = ""
    /\ faults_left = 0
    /\ checkout_sets_status = TRUE
    /\ calls = {Call("load", "GET", <<LoadOrder[i], "*">>) : i \in DOMAIN LoadOrder}
    /\ hardware_before = r_hardware
    /\ snipeit_statuses = NameIndex(r_statuslabels)
    /\ snipeit_manufacturers = NameIndex(r_manufacturers)
    /\ snipeit_categories = NameIndex(r_categories)
    /\ snipeit_models = ModelIndex(r_models)
    /\ snipeit_locations = NameIndex(r_locations)
    /\ snipeit_companies = NameIndex(r_companies)
    /\ snipeit_assets = AssetIndex(r_hardware)
    /\ snipeit_users = UserIndex(r_users)
    /\ directory_data_for_user_lookup = <<>>
    /\ dirIdx = 0
    /\ todo = <<>>
    /\ multi_user_admins_data = <<>>
    /\ snipeit_target_user_info = NoUser
    /\ user_name_for_assignment = NONE
    /\ best_fallback_netid = NONE
    /\ evaluated = {}
    /\ current_notes_on_snipeit = EmptyNotes
    /\ current_snipeit_status = NONE
    /\ current_snipeit_assigned_to_id = NONE
    /\ assets_skipped_final_count = 0
    /\ rowIdx = 0
    /\ bigfix_data = <<>>
    /\ skipped_serial_count = 0
    /\ devIdx = 0

NextSync == SyncUserRow

SpecSync == InitSync /\ [][NextSync]_vars

(***************************************************************************)
(* SpecPages: get_snipeit_data_paginated step by step, on collections that *)
(* take several pages.  The page limit is 500 in the script; the model     *)
(* keeps the arithmetic and scales the limit down.  The calls are the ones *)
(* main() makes from 'manufacturers' to 'users' (lines 803-863), each      *)
(* straight after the other; the indexing of what a call returns is left   *)
(* to LoadSnapshot.  The endpoint serves its collection faithfully: the    *)
(* page at an offset holds the rows from that offset on, up to the limit.  *)
(***************************************************************************)
MAX_API_LIMIT_PER_REQUEST == 2
MaxCollection == 5

Collections == {[i \in 1..n |-> i] : n \in 0..MaxCollection}

PageAt(all, off) ==
    IF off >= Len(all) THEN <<>>
    ELSE SubSeq(all, off + 1, IF off + MAX_API_LIMIT_PER_REQUEST < Len(all)
                              THEN off + MAX_API_LIMIT_PER_REQUEST ELSE Len(all))

\* a loop that goes on until a page comes back empty
LastPageWhenEmpty(page) == page = <<>>

\* "if not rows or len(rows) < MAX_API_LIMIT_PER_REQUEST: break"
LastPage(page) == page = <<>> \/ Len(page) < MAX_API_LIMIT_PER_REQUEST

StartFetch ==
    /\ fetch_pc = "idle"
    /\ pc \in Range(LoadOrder)
    /\ collection' \in Collections
    /\ all_items' = <<>>
    /\ offset' = 0
    /\ requested' = <<>>
    /\ page_rows' = <<>>
    /\ fetch_pc' = "request"
    /\ UNCHANGED <<pc, runVars, remoteVars, inputVars, taxonomyVars, snipeit_assets,
                   feedVars, identityVars, todo, resolveVars, deviceVars, undelayed>>

\* requests.get and raise_for_status: a failure of either is a
\* RequestException, which ends the loop
RequestPage ==
    /\ fetch_pc = "request"
    /\ \E outcome \in Outcomes :
        /\ Spend(outcome)
        /\ Log("load", "GET", <<pc, offset>>)
        /\ requested' = Append(requested, offset)
        /\ undelayed' = TRUE
        /\ IF outcome = "ok"
           THEN page_rows' = PageAt(collection, offset) /\ fetch_pc' = "sleep"
           ELSE page_rows' = <<>> /\ fetch_pc' = "return"
    /\ UNCHANGED <<pc, passNo, halted, checkout_sets_status, remoteVars, inputVars,
                   taxonomyVars, snipeit_assets, feedVars, identityVars, todo, resolveVars,
                   deviceVars, collection, offset, all_items>>

\* time.sleep(REQUEST_DELAY_SECONDS), inside the try
SleepAfterPage ==
    /\ fetch_pc = "sleep"
    /\ undelayed' = FALSE
    /\ fetch_pc' = "extend"
    /\ UNCHANGED <<pc, runVars, remoteVars, inputVars, taxonomyVars, snipeit_assets,
                   feedVars, identityVars, todo, resolveVars, deviceVars, collection,
                   offset, all_items, page_rows, requested>>

ExtendItems ==
    /\ fetch_pc = "extend"
    /\ all_items' = all_items \o page_rows
    /\ IF LastPage(page_rows)
       THEN fetch_pc' = "return" /\ UNCHANGED offset
       ELSE fetch_pc' = "request" /\ offset' = offset + MAX_API_LIMIT_PER_REQUEST
    /\ UNCHANGED <<pc, runVars, remoteVars, inputVars, taxonomyVars, snipeit_assets,
                   feedVars, identityVars, todo, resolveVars, deviceVars, collection,
                   page_rows, requested, undelayed>>

\* "return all_items", and main() goes on to its next fetch
ReturnItems ==
    /\ fetch_pc = "return"
    /\ fetch_pc' = "idle"
    /\ pc' = AfterLoad(pc)
    /\ UNCHANGED <<runVars, remoteVars, inputVars, taxonomyVars, snipeit_assets, feedVars,
                   identityVars, todo, resolveVars, deviceVars, collection, offset,
                   all_items, page_rows, requested, undelayed>>

InitPages ==
    /\ pc = "manufacturers"
    /\ DefaultReference
    /\ r_hardware = NoHardware
    /\ directory_file = DefaultDirectory
    /\ admins_file = <<>>
    /\ feed = <<>>
    /\ hardware_before = r_hardware
    /\ passNo = 1
    /\ halted = ""
    /\ faults_left = MaxFaults
    /\ checkout_sets_status = TRUE
    /\ calls = {}
    /\ MemoryInit
    /\ NoFetch

NextPages == StartFetch \/ RequestPage \/ SleepAfterPage \/ ExtendItems \/ ReturnItems

SpecPages == InitPages /\ [][NextPages]_vars


(***************************************************************************)
(* Properties of the feed reading.                                         *)
(***************************************************************************)
PlaceholderKeys == {"0123456789", "TO BE FILLED BY O.E.M.", "SYSTEM SERIAL NUMBER"}
SerialKey(row) == UpperStr(StripStr(row.Serial))
IsPlaceholder(row) == row.Serial # "" /\ SerialKey(row) \in PlaceholderKeys
AcceptedRow(row) ==
    /\ StripStr(row.Serial) # ""
    /\ SerialKey(row) \notin PlaceholderKeys
    /\ row.LastReportTime # NoTime
StampOf(row) == parse_last_report_time(row.LastReportTime)

\* the accepted rows read so far that share the serial of row i
Sharing(i) ==
    {j \in 1..rowIdx : AcceptedRow(feed[j]) /\ SerialKey(feed[j]) = SerialKey(feed[i])}
MaxStamp(I) == Max({StampOf(feed[j]) : j \in I})
FirstAtMax(I) == Min({j \in I : StampOf(feed[j]) = MaxStamp(I)})

\* C2: among the accepted rows read so far that share a serial (trimmed,
\* upper-cased), the retained record is the row with the maximum parsed
\* timestamp, the first such row in feed order when several share the
\* maximum (so a later row replaced the retained one only when strictly
\* newer); a serial has one record, and only accepted serials have one.
C2_DedupKeepsLatestFirst ==
    /\ \A i \in 1..rowIdx : AcceptedRow(feed[i]) =>
          \E k \in DOMAIN bigfix_data :
              /\ bigfix_data[k].key = SerialKey(feed[i])
              /\ bigfix_data[k].row = feed[FirstAtMax(Sharing(i))]
              /\ bigfix_data[k].parsed_last_report_time = MaxStamp(Sharing(i))
    /\ \A k, l \in DOMAIN bigfix_data :
          bigfix_data[k].key = bigfix_data[l].key => k = l
    /\ \A k \in DOMAIN bigfix_data :
          \E i \in 1..rowIdx : AcceptedRow(feed[i]) /\ SerialKey(feed[i]) = bigfix_data[k].key

\* three accepted rows of one serial: the second strictly newer than the
\* first, the third a different row as recent as the second; the second is kept
C2_Witness ==
    /\ rowIdx = 3
    /\ \A i \in 1..3 : AcceptedRow(feed[i]) /\ SerialKey(feed[i]) = "S1"
    /\ StampOf(feed[1]) < StampOf(feed[2])
    /\ StampOf(feed[2]) = StampOf(feed[3])
    /\ feed[2] # feed[3]
    /\ Len(bigfix_data) = 1
    /\ bigfix_data[1].row = feed[2]

\* the deduplication of a list of rows
RECURSIVE DedupOf(_)
DedupOf(rows) ==
    IF rows = <<>> THEN <<>>
    ELSE FeedRowStep(DedupOf(SubSeq(rows, 1, Len(rows) - 1)), rows[Len(rows)]).data

\* C3: a feed row whose serial, trimmed and whatever its case, is one of the
\* placeholder serials never enters the deduplicated device set and never
\* influences it (the set is the one the feed without these rows gives), and
\* no remote call is issued for it: none names it, and a feed of such rows
\* alone leads to no call beyond the loading and the user synchronisation.
C3_PlaceholdersExcluded ==
    /\ \A k \in DOMAIN bigfix_data : bigfix_data[k].key \notin PlaceholderKeys
    /\ bigfix_data = DedupOf(SelectSeq(SubSeq(feed, 1, rowIdx),
                                       LAMBDA row : ~IsPlaceholder(row)))
    /\ \A c \in calls : UpperStr(StripStr(c.target[2])) \notin PlaceholderKeys
    /\ (passNo = 1 /\ bigfix_data = <<>>) =>
           \A c \in calls : c.site \in {"load", "sync_users"}

\* a run that read a placeholder row newer than the accepted row after it,
\* and went on to work on the accepted row's serial alone
C3_Witness ==
    /\ pc = "summary"
    /\ passNo = 1
    /\ Len(feed) = 2
    /\ IsPlaceholder(feed[1])
    /\ AcceptedRow(feed[2])
    /\ StampOf(feed[1]) > StampOf(feed[2])
    /\ Len(bigfix_data) = 1
    /\ bigfix_data[1].row = feed[2]
    /\ \E c \in calls : c.target = <<"hardware", SerialKey(feed[2])>>

(***************************************************************************)
(* Properties of the user resolution.                                      *)
(***************************************************************************)
CandidateNames == {"u1", "u2", "u3", "( work"}

InDirectory(netid) ==
    \E i \in DOMAIN directory_data_for_user_lookup :
        LowerStr(StripStr(directory_data_for_user_lookup[i].EmployeeNetId)) = netid

\* the remote users of that username
ProvisionedAs(netid) ==
    {i \in DOMAIN r_users : LowerStr(StripStr(r_users[i].username)) = netid}

PrimaryNetid(row) == LowerStr(StripStr(row.UserName))
PrimaryValid(row) ==
    /\ StripStr(row.UserName) # ""
    /\ InDirectory(PrimaryNetid(row))
    /\ ProvisionedAs(PrimaryNetid(row)) # {}

\* occurrences of the NetID among the parts of the auxiliary columns
Occurrences(row, netid) ==
    Cardinality({<<"firefox", i>> : i \in {j \in DOMAIN row.FirefoxUsers :
                     extract_netid(StripStr(row.FirefoxUsers[j])) = netid}}
                \cup {<<"chrome", i>> : i \in {j \in DOMAIN row.ChromeUsers :
                     extract_netid(StripStr(row.ChromeUsers[j])) = netid}}
                \cup {<<"wifi", i>> : i \in {j \in DOMAIN row.WifiUsers :
                     extract_netid(StripStr(row.WifiUsers[j])) = netid}})

\* in the directory records, and the directory Employee-ID or the NetID is a
\* key of the remote user cache
Qualifies(netid) ==
    \E i \in DOMAIN directory_data_for_user_lookup :
        /\ LowerStr(StripStr(directory_data_for_user_lookup[i].EmployeeNetId)) = netid
        /\ \/ StripStr(directory_data_for_user_lookup[i].EmployeeID) \in DOMAIN snipeit_users
           \/ netid \in DOMAIN snipeit_users

QualifyingCandidates(row) ==
    {n \in CandidateNames : Occurrences(row, n) > 0 /\ Qualifies(n)}

Resolved == pc \in {"fetch_live", "next_device"} /\ devIdx = 1

\* C4: when the primary 'User Name' hint names a NetID that is in the
\* directory records and provisioned as a remote user, the resolved owner is
\* that user and priorities 2, 3 and 4 are not evaluated, whatever the
\* auxiliary columns and the hostname say.
C4_PrimaryHintWins ==
    (Resolved /\ PrimaryValid(CurrentRow)) =>
        /\ evaluated = {1}
        /\ \E i \in ProvisionedAs(PrimaryNetid(CurrentRow)) :
              snipeit_target_user_info.id = r_users[i].id
        /\ snipeit_target_user_info.username = PrimaryNetid(CurrentRow)
        /\ user_name_for_assignment = StripStr(CurrentRow.UserName)

\* a valid primary hint u1, against another qualifying NetID named twice in
\* the auxiliary columns and named by the hostname
C4_Witness ==
    /\ Resolved
    /\ PrimaryValid(CurrentRow)
    /\ PrimaryNetid(CurrentRow) = "u1"
    /\ Occurrences(CurrentRow, "u2") = 2
    /\ Occurrences(CurrentRow, "u1") = 0
    /\ Qualifies("u2")
    /\ CurrentRow.ComputerName = "ENG-u2-01"
    /\ snipeit_target_user_info.username = "u1"

\* the qualifying candidates of the highest count among the qualifying ones
QualifyingAtMax(row) ==
    {n \in QualifyingCandidates(row) :
        \A m \in QualifyingCandidates(row) : Occurrences(row, n) >= Occurrences(row, m)}

\* C5: when two or more qualifying candidates share the maximum occurrence
\* count among the qualifying candidates, find_best_netid returns no NetID,
\* in whatever columns and alphabetical order the candidates come.
C5_TieGivesNone ==
    (Resolved /\ 2 \in evaluated /\ Cardinality(QualifyingAtMax(CurrentRow)) >= 2) =>
        best_fallback_netid = NONE

C5_Witness ==
    /\ Resolved
    /\ 2 \in evaluated
    /\ QualifyingAtMax(CurrentRow) = {"u1", "u2"}
    /\ CurrentRow.FirefoxUsers = <<"U2 ">>
    /\ CurrentRow.WifiUsers = <<"u1">>
    /\ best_fallback_netid = NONE

\* C6: find_best_netid returns NetID n exactly when n is a qualifying
\* candidate whose occurrence count is strictly greater than that of every
\* other qualifying candidate; a candidate that does not qualify never wins
\* and never causes a tie, whatever its count.
C6_WinnerIsStrictQualifyingMax ==
    (Resolved /\ 2 \in evaluated) =>
        /\ \A n \in CandidateNames :
              (best_fallback_netid = n) <=>
                  /\ n \in QualifyingCandidates(CurrentRow)
                  /\ \A m \in QualifyingCandidates(CurrentRow) \ {n} :
                        Occurrences(CurrentRow, n) > Occurrences(CurrentRow, m)
        /\ best_fallback_netid \in CandidateNames \cup {NONE}

\* a winner named once, beside a candidate named twice that does not qualify
C6_Witness ==
    /\ Resolved
    /\ 2 \in evaluated
    /\ best_fallback_netid = "u1"
    /\ \E m \in CandidateNames :
          /\ ~Qualifies(m)
          /\ Occurrences(CurrentRow, m) > Occurrences(CurrentRow, "u1")

(***************************************************************************)
(* Properties of a whole run.                                              *)
(***************************************************************************)
\* C1: a second pass over the same feed and directory, against the remote
\* state the first pass left and with every call succeeding, issues no
\* mutating remote call (no POST, PUT or DELETE), whatever the remote state
\* was before the first pass.
C1_SecondPassIssuesNoMutation ==
    \A c \in calls : c.pass = 2 => ~Mutating(c)

\* the first pass has come to its summary with no remote call failing
FaithfulPassDone == pc = "summary" /\ passNo = 1 /\ faults_left = MaxFaults

\* a device of the feed with no remote asset before the run, a resolving
\* taxonomy, and a primary user in the directory and provisioned remotely
NewResolvableDevice(e) ==
    /\ e.key \notin DOMAIN hardware_before
    /\ TaxonomyResolved(e.row)
    /\ PrimaryValid(e.row)

\* C7: for a feed device whose serial has no remote asset, whose
\* manufacturer, category and model resolve and whose primary user is in the
\* directory and provisioned remotely, a pass against a remote that applies
\* every call creates the asset and ends with the remote asset in the
\* checked-out status, assigned to that user's remote id.
C7_NewDeviceEndsCheckedOut ==
    FaithfulPassDone =>
        \A k \in DOMAIN bigfix_data :
            NewResolvableDevice(bigfix_data[k]) =>
                /\ Call("create_asset", "POST", <<"hardware", bigfix_data[k].key>>) \in calls
                /\ bigfix_data[k].key \in DOMAIN r_hardware
                /\ r_hardware[bigfix_data[k].key].status = CHECKED_OUT_STATUS_LABEL
                /\ \E i \in ProvisionedAs(PrimaryNetid(bigfix_data[k].row)) :
                      r_hardware[bigfix_data[k].key].assigned = AssignedTo("user", r_users[i].id)

\* a new device S1 of user u1, on a remote whose checkout leaves the status
\* label alone: created, checked out and moved to 'Deployed'
C7_Witness ==
    /\ FaithfulPassDone
    /\ ~checkout_sets_status
    /\ Len(bigfix_data) >= 1
    /\ NewResolvableDevice(bigfix_data[1])
    /\ bigfix_data[1].key = "S1"
    /\ "S1" \in DOMAIN r_hardware
    /\ r_hardware["S1"].status = CHECKED_OUT_STATUS_LABEL
    /\ r_hardware["S1"].assigned = AssignedTo("user", "u1")

\* a device the first pass has come to, with a remote asset whose notes
\* carry a timestamp the feed's is not strictly newer than
StaleDevice(k) ==
    /\ passNo = 1
    /\ k <= devIdx
    /\ bigfix_data[k].key \in DOMAIN hardware_before
    /\ hardware_before[bigfix_data[k].key].notes # NullNotes
    /\ ~(bigfix_data[k].parsed_last_report_time >
            LastReportTimeFromNotes(hardware_before[bigfix_data[k].key].notes))

\* C8: for an existing remote asset whose notes timestamp the feed's
\* last-seen timestamp is not strictly newer than, no notes read and no notes
\* write is issued: the notes are not fetched, the notes step puts nothing,
\* and the notes of the asset stay as they were.
C8_StaleRowLeavesNotesAlone ==
    \A k \in DOMAIN bigfix_data :
        StaleDevice(k) =>
            /\ \A c \in calls :
                  c.target = <<"hardware", bigfix_data[k].key>> =>
                      c.site \notin {"read_notes", "write_notes"}
            /\ r_hardware[bigfix_data[k].key].notes = hardware_before[bigfix_data[k].key].notes

\* The part of C8 that holds, the timestamp gate alone: for a stale row the
\* notes are not fetched and the notes step puts nothing.
C8_StaleRowSkipsNotesStep ==
    \A k \in DOMAIN bigfix_data :
        StaleDevice(k) =>
            \A c \in calls :
                c.target = <<"hardware", bigfix_data[k].key>> =>
                    c.site \notin {"read_notes", "write_notes"}

\* C9: the run never halts on one device's failure: whatever the outcome of
\* the remote calls made for a device, no exception of a call wrapper used
\* in the device loop ends the run before its summary.
C9_RunNeverHaltsOnDevice ==
    ~(/\ pc = "crashed"
      /\ halted \in {"create_snipeit_asset", "update_asset_status", "checkin_asset",
                     "checkout_asset_to_user"})

\* the status labels the run got lack one it needs
StatusLabelsLacking ==
    /\ passNo = 1
    /\ pc # "statuslabels"
    /\ \/ LowerStr(DEFAULT_STATUS_LABEL) \notin DOMAIN snipeit_statuses
       \/ LowerStr(CHECKED_OUT_STATUS_LABEL) \notin DOMAIN snipeit_statuses

\* C10: when the status-label collection comes back empty, or lacks the
\* 'Ready to Deploy' or the 'Deployed' label, the run aborts having issued
\* no mutating remote call of any kind.
C10_StatusLabelsFatal ==
    StatusLabelsLacking =>
        /\ pc = "aborted"
        /\ halted \in {"no status labels", "default status label", "checked out status label"}
        /\ \A c \in calls : ~Mutating(c)

\* labels that came back without 'Deployed'
C10_Witness ==
    /\ pc = "aborted"
    /\ r_statuslabels = <<"Ready to Deploy">>
    /\ DOMAIN snipeit_statuses = {"ready to deploy"}
    /\ halted = "checked out status label"

(***************************************************************************)
(* Properties of the device loop.                                          *)
(***************************************************************************)
\* the places of main() that are behind the location / company checks
DeviceLoopSteps ==
    {"next_device", "read_notes", "write_notes", "create_asset", "resolve", "fetch_live",
     "force_ready", "verify_ready", "checkin", "verify_checkin", "checkout",
     "verify_checkout", "corrective", "summary"}

\* the calls of the device loop that create, update, check in or check out
HardwareMutationSites ==
    {"create_asset", "write_notes", "force_ready", "checkin", "checkout", "corrective"}

\* the snapshot of this pass is loaded and lacks the default location or the
\* target company
LocationOrCompanyLacking ==
    /\ pc \in DeviceLoopSteps \cup {"aborted", "crashed"}
    /\ halted \notin {"no status labels", "default status label", "checked out status label",
                      "load hardware", "create_snipeit_manufacturer", "create_snipeit_model"}
    /\ \/ LowerStr(DEFAULT_LOCATION_NAME) \notin DOMAIN snipeit_locations
       \/ LowerStr(TARGET_COMPANY_NAME) \notin DOMAIN snipeit_companies

\* C11: when the default location or the target company is absent from the
\* snapshot, the run aborts without issuing any hardware create, update,
\* checkin or checkout call.
C11_LocationCompanyFatal ==
    LocationOrCompanyLacking =>
        /\ pc = "aborted"
        /\ halted \in {"default location", "target company"}
        /\ \A c \in calls : c.pass = passNo => c.site \notin HardwareMutationSites

\* a feed with a device, the location there and the company not
C11_Witness ==
    /\ pc = "aborted"
    /\ halted = "target company"
    /\ r_companies = <<>>
    /\ r_locations = <<DEFAULT_LOCATION_NAME>>
    /\ Len(bigfix_data) = 1

\* the last re-fetch of the current device showed it ready and unassigned
ShownReadyUnassigned ==
    /\ current_snipeit_status = checkin_status_id
    /\ current_snipeit_assigned_to_id = NONE

\* C12: a checkout call is issued only when the most recent re-fetch of the
\* asset in this pass showed status = ready and no assignee (the workflow
\* comes to the checkout straight from such a re-fetch); when the forced
\* status update or the checkin fails, or their re-verification does not show
\* the expected state, the device is left without a checkout call.
C12_CheckoutOnlyWhenReadyUnassigned ==
    [][/\ pc = "checkout" => ShownReadyUnassigned
       /\ pc' = "checkout" =>
             /\ pc \in {"fetch_live", "verify_ready", "verify_checkin"}
             /\ ShownReadyUnassigned'
       /\ (pc \in {"force_ready", "checkin"} /\ faults_left' < faults_left) =>
             pc' \in {"next_device", "crashed"}
       /\ (pc = "verify_ready" /\ current_snipeit_status' # checkin_status_id) =>
             pc' = "next_device"
       /\ (pc = "verify_checkin" /\ ~ShownReadyUnassigned') =>
             pc' = "next_device"]_vars

\* an archived asset of another user: forced to ready, checked in, and then
\* checked out
C12_Witness ==
    /\ pc = "verify_checkout"
    /\ passNo = 1
    /\ CurrentKey \in DOMAIN hardware_before
    /\ hardware_before[CurrentKey].status = "Archived"
    /\ hardware_before[CurrentKey].assigned = AssignedTo("user", "u2")
    /\ {Call("force_ready", "PUT", <<"hardware", CurrentKey>>),
        Call("checkin", "POST", <<"checkin", CurrentKey>>),
        Call("checkout", "POST", <<"checkout", CurrentKey>>)} \subseteq calls

\* the remote asset of the current device is in the checked-out status and
\* assigned, as a user assignment, to the resolved user
RemoteAlreadyCorrect ==
    /\ r_hardware[CurrentKey].status = checked_out_status_id
    /\ r_hardware[CurrentKey].assigned = AssignedTo("user", snipeit_user_id)

\* C13: for a device with a resolved user the engine leaves the device with no
\* status-update, checkin or checkout call exactly when the live re-fetch
\* shows the asset in the checked-out status and assigned to the resolved
\* user as a user assignment; an assignment to a location or to another asset
\* does not count as an assignment to the user.
C13_NoOpExactlyWhenAlreadyCorrect ==
    [][pc = "fetch_live" =>
          (pc' = "next_device" <=> (faults_left' = faults_left /\ RemoteAlreadyCorrect))]_vars

\* The part of C13 that holds: an asset the re-fetch shows checked out to the
\* resolved user is left alone, and an asset shown in another status, or with
\* another or no assignee id, goes on to a status update, checkin or checkout.
C13_NoOpOnShownIds ==
    [][pc = "fetch_live" =>
          (pc' = "next_device" <=>
              /\ faults_left' = faults_left
              /\ r_hardware[CurrentKey].status = checked_out_status_id
              /\ AssignedToId(r_hardware[CurrentKey]) = snipeit_user_id)]_vars

\* the last re-fetch of the current device showed it in the checked-out
\* status with the resolved user as assignee
ShownCheckedOutToUser ==
    /\ current_snipeit_status = checked_out_status_id
    /\ current_snipeit_assigned_to_id = snipeit_user_id

\* the calls a step adds to those issued so far
NewCalls == calls' \ calls

\* C14: after a checkout call reported as successful the asset is re-fetched
\* once; when the re-fetch shows status = checked-out and assignee = resolved
\* user no further call is issued for the device, otherwise exactly one
\* corrective status update to the checked-out status is issued and then no
\* further call for the device (no second verification, no retry).
C14_BoundedRepair ==
    [][/\ (pc = "checkout" /\ faults_left' = faults_left) =>
             /\ pc' = "verify_checkout"
             /\ NewCalls = {Call("checkout", "POST", <<"checkout", CurrentKey>>)}
       /\ pc = "verify_checkout" =>
             /\ NewCalls = {Call("verify_checkout", "GET", <<"hardware", CurrentKey>>)}
             /\ pc' = IF ShownCheckedOutToUser' THEN "next_device" ELSE "corrective"
       /\ pc = "corrective" =>
             /\ NewCalls = {Call("corrective", "PUT", <<"hardware", CurrentKey>>)}
             /\ pc' \in {"next_device", "crashed"}
             /\ faults_left' = faults_left =>
                   r_hardware'[CurrentKey].status = CHECKED_OUT_STATUS_LABEL
       /\ (pc = "next_device" /\ devIdx > 0 /\ devIdx < Len(bigfix_data)) =>
             /\ devIdx' = devIdx + 1
             /\ bigfix_data[devIdx'].key # bigfix_data[devIdx].key]_vars

\* a checkout the remote applied without moving the status label: one
\* corrective update, after which the device is left in 'Deployed'
C14_Witness ==
    /\ pc = "next_device"
    /\ passNo = 1
    /\ devIdx > 0
    /\ ~checkout_sets_status
    /\ {Call("checkout", "POST", <<"checkout", CurrentKey>>),
        Call("verify_checkout", "GET", <<"hardware", CurrentKey>>),
        Call("corrective", "PUT", <<"hardware", CurrentKey>>)} \subseteq calls
    /\ r_hardware[CurrentKey].status = CHECKED_OUT_STATUS_LABEL
    /\ r_hardware[CurrentKey].assigned = AssignedTo("user", snipeit_user_id)

\* the calls of the assignment workflow
AssignmentSites ==
    {"fetch_live", "force_ready", "verify_ready", "checkin", "verify_checkin", "checkout",
     "verify_checkout", "corrective"}

\* device k of the feed has been through the user resolution of this pass,
\* and none of the four priorities gave it a validated user
LeftUnresolved(k) ==
    /\ k <= devIdx
    /\ k < devIdx \/ pc \notin {"read_notes", "write_notes", "create_asset", "resolve"}
    /\ k < devIdx \/ halted = ""
    /\ TaxonomyResolved(bigfix_data[k].row)
    /\ bigfix_data[k].key \in DOMAIN snipeit_assets
    /\ ResolveChain(bigfix_data[k].row, directory_data_for_user_lookup, snipeit_users,
                    multi_user_admins_data).info = NoUser

\* C15: when none of the four priorities yields a validated user for a
\* device, no live re-fetch, status update, checkin or checkout is issued for
\* its asset, and the asset's remote status and assignee stay what they were
\* before the pass.
C15_UnresolvedLeavesAssignment ==
    \A k \in DOMAIN bigfix_data :
        LeftUnresolved(k) =>
            /\ \A c \in calls :
                  (c.pass = passNo /\ c.target[2] = bigfix_data[k].key) =>
                      c.site \notin AssignmentSites
            /\ bigfix_data[k].key \in DOMAIN hardware_before =>
                  /\ r_hardware[bigfix_data[k].key].status =
                        hardware_before[bigfix_data[k].key].status
                  /\ r_hardware[bigfix_data[k].key].assigned =
                        hardware_before[bigfix_data[k].key].assigned

\* an asset deployed to u2 whose feed row names nobody: its notes were
\* brought up to date and it stays deployed to u2
C15_Witness ==
    /\ pc = "next_device"
    /\ passNo = 1
    /\ devIdx = 1
    /\ LeftUnresolved(1)
    /\ bigfix_data[1].key \in DOMAIN hardware_before
    /\ Call("write_notes", "PUT", <<"hardware", bigfix_data[1].key>>) \in calls
    /\ r_hardware[bigfix_data[1].key].status = "Deployed"
    /\ r_hardware[bigfix_data[1].key].assigned = AssignedTo("user", "u2")

\* the create call of this step did not give the current device an asset
CreateFailed == pc = "create_asset" /\ r_hardware' = r_hardware

\* C16: when the asset-create call is answered with 'asset tag already taken',
\* or fails in any other way, the engine adds no record for the device to the
\* asset cache, counts it as skipped and continues with the next device,
\* issuing no further remote call for it.
C16_FailedCreateIsSkipped ==
    [][CreateFailed =>
          /\ snipeit_assets' = snipeit_assets
          /\ assets_skipped_final_count' = assets_skipped_final_count + 1
          /\ pc' = "next_device"]_vars

\* The part of C16 that holds: a create answered with a JSON error body, the
\* 'already taken' conflict included, skips the device and goes on.
C16_ConflictIsSkipped ==
    [][(CreateFailed /\ ~(\E outcome \in Faults : CreateWrapperRaises(outcome)
                                                  /\ faults_left' < faults_left
                                                  /\ pc' = "crashed")) =>
          /\ snipeit_assets' = snipeit_assets
          /\ assets_skipped_final_count' = assets_skipped_final_count + 1
          /\ pc' = "next_device"]_vars

\* the calls of the device loop: every hardware call of a device
DeviceSites == HardwareMutationSites \cup AssignmentSites \cup {"read_notes"}

\* the snapshot of this pass gives the row a manufacturer-ID, a category-ID
\* and, for the two, a model-ID
IdsResolved(row) ==
    /\ LowerStr(StripStr(row.Manufacturer)) \in DOMAIN snipeit_manufacturers
    /\ LowerStr(StripStr(row.DeviceType)) \in DOMAIN snipeit_categories
    /\ <<LowerStr(StripStr(row.Model)),
         snipeit_manufacturers[LowerStr(StripStr(row.Manufacturer))],
         snipeit_categories[LowerStr(StripStr(row.DeviceType))]>> \in DOMAIN snipeit_models

\* C17: a hardware call (create, notes read or write, status update, detail
\* fetch, checkin, checkout) is issued for a device only when its
\* manufacturer-ID, category-ID and model-ID have all been resolved; a device
\* lacking any of the three is skipped, counted once, and excluded from user
\* resolution.
C17_TaxonomyGate ==
    [][/\ \A c \in NewCalls :
             c.site \in DeviceSites => (c.target[2] = CurrentKey /\ IdsResolved(CurrentRow))
       /\ pc = "resolve" => IdsResolved(CurrentRow)
       /\ (pc = "next_device" /\ devIdx < Len(bigfix_data)
             /\ ~IdsResolved(bigfix_data[devIdx + 1].row)) =>
             /\ pc' = "next_device"
             /\ devIdx' = devIdx + 1
             /\ assets_skipped_final_count' = assets_skipped_final_count + 1
             /\ calls' = calls
             /\ evaluated' = {}
             /\ snipeit_target_user_info' = NoUser]_vars

\* a device whose category the snapshot lacks: skipped and counted, with no
\* hardware call in the run
C17_Witness ==
    /\ pc = "summary"
    /\ passNo = 1
    /\ Len(bigfix_data) = 1
    /\ ~IdsResolved(bigfix_data[1].row)
    /\ assets_skipped_final_count = 1
    /\ \A c \in calls : c.site \notin DeviceSites

(***************************************************************************)
(* Properties of the priorities 3 and 4.                                   *)
(***************************************************************************)
\* the rules of the shared-ownership file: lower-cased name schema and netid
RulesOfFile ==
    [i \in DOMAIN admins_file |->
        [name_schema |-> LowerStr(StripStr(admins_file[i].NameSchema)),
         netid |-> LowerStr(StripStr(admins_file[i].netid))]]

\* the rules whose schema the lower-cased display name of the row starts with
MatchingRules(row) ==
    {i \in DOMAIN RulesOfFile :
        /\ RulesOfFile[i].name_schema # ""
        /\ RulesOfFile[i].netid # ""
        /\ StartsWith(LowerStr(ComputerNameForAsset(row)), RulesOfFile[i].name_schema)}

\* priorities 1 to 3 give the row no user
UnresolvedBy123(row) ==
    /\ Priority1(row, directory_data_for_user_lookup, snipeit_users).info = NoUser
    /\ Priority2Of(find_best_netid(row, directory_data_for_user_lookup, snipeit_users),
                   directory_data_for_user_lookup, snipeit_users).info = NoUser
    /\ Priority3(row, directory_data_for_user_lookup, snipeit_users).info = NoUser

\* the remote users the first matching rule's netid stands for
RuleOwners(row) ==
    IF MatchingRules(row) = {} THEN {}
    ELSE {i \in DOMAIN r_users :
            /\ InDirectory(RulesOfFile[Min(MatchingRules(row))].netid)
            /\ i \in ProvisionedAs(RulesOfFile[Min(MatchingRules(row))].netid)}

\* C18: for a device not resolved by priorities 1 to 3 whose lower-cased name
\* starts with the name schema of a rule of the shared-ownership file, the
\* first matching rule's fallback NetID, when it is in the directory records
\* and provisioned remotely, becomes the resolved owner and the asset is
\* checked out to that user.
C18_SharedOwnershipRuleAssigns ==
    FaithfulPassDone =>
        \A k \in DOMAIN bigfix_data :
            (/\ IdsResolved(bigfix_data[k].row)
             /\ UnresolvedBy123(bigfix_data[k].row)
             /\ RuleOwners(bigfix_data[k].row) # {}) =>
                /\ bigfix_data[k].key \in DOMAIN r_hardware
                /\ \E i \in RuleOwners(bigfix_data[k].row) :
                      r_hardware[bigfix_data[k].key].assigned =
                          AssignedTo("user", r_users[i].id)

(***************************************************************************)
(* Properties of the hint normalization.                                   *)
(***************************************************************************)
\* The identity a comma-separated part of a hint cell stands for ("" for a
\* part that is the label of a parenthesized '( label, identity )' value).
IdentityOfPart ==
    ("u1" :> "u1") @@ ("U2 " :> "u2") @@ ("u3" :> "u3") @@
    ("u1@nyu.edu )" :> "u1") @@ ("( Work" :> "")

\* the identities of the hint values of the row, with their occurrences
IdentityCount(row, netid) ==
    Cardinality({ci \in HintPositions(HintColumns(row)) :
                    IdentityOfPart[HintColumns(row)[ci[1]][ci[2]]] = netid})

\* C19: every auxiliary hint value is counted as the candidate NetID it
\* stands for (lower-cased, '@domain' removed, the identity token of a
\* parenthesized '( label, identity )' form), and no label such as '( work'
\* is counted as a candidate.
C19_HintsNormalized ==
    Resolved => \A n \in DOMAIN netid_candidates(CurrentRow) :
        /\ netid_candidates(CurrentRow)[n] > 0 => n \in {"u1", "u2", "u3"}
        /\ n \in {"u1", "u2", "u3"} =>
              netid_candidates(CurrentRow)[n] = IdentityCount(CurrentRow, n)

\* The part of C19 that holds: the identities are counted as the claim says.
C19_IdentitiesCounted ==
    Resolved => \A n \in {"u1", "u2", "u3"} :
        netid_candidates(CurrentRow)[n] = IdentityCount(CurrentRow, n)

\* The token between the first and the second hyphen of the display names
\* that start with 'eng-' (any case) and have a further hyphen.
HostnameToken ==
    ("ENG-u1-01" :> "u1") @@ ("ENG-u2-01" :> "u2") @@ ("ENG-u3-01" :> "u3")

\* the display name follows the convention and its token is the NetID of a
\* directory record that is provisioned remotely
HostnameNamesUser(row) ==
    /\ ComputerNameForAsset(row) \in DOMAIN HostnameToken
    /\ Qualifies(HostnameToken[ComputerNameForAsset(row)])

\* C20: for a device not resolved by priorities 1 and 2, priority 3 resolves
\* a user exactly when the lower-cased display name starts with 'eng-', has a
\* further hyphen after that prefix, and the token between the first and the
\* second hyphen is the NetID of a directory record provisioned remotely (by
\* its Employee-ID or by the NetID key); the user resolved is that one, and a
\* token that fails either check is never assigned.
C20_HostnameConvention ==
    (Resolved /\ 3 \in evaluated) =>
        /\ snipeit_target_user_info # NoUser <=> HostnameNamesUser(CurrentRow)
        /\ snipeit_target_user_info # NoUser =>
              /\ user_name_for_assignment = HostnameToken[ComputerNameForAsset(CurrentRow)]
              /\ snipeit_target_user_info.username =
                    HostnameToken[ComputerNameForAsset(CurrentRow)]
              /\ pc = "fetch_live"

\* 'ENG-u2-01' with a primary hint that is not provisioned: u2 by the name
C20_Witness ==
    /\ Resolved
    /\ evaluated = {1, 2, 3}
    /\ CurrentRow.ComputerName = "ENG-u2-01"
    /\ CurrentRow.UserName = "u3"
    /\ snipeit_target_user_info.username = "u2"
    /\ user_name_for_assignment = "u2"

(***************************************************************************)
(* Properties of the taxonomy resolution.                                  *)
(***************************************************************************)
\* the row's category has no remote category, the default category exists
\* remotely, and the row's manufacturer resolves
NeedsDefaultCategory(row) ==
    /\ LowerStr(StripStr(row.DeviceType)) \notin DOMAIN snipeit_categories
    /\ LowerStr(DEFAULT_CATEGORY_NAME) \in DOMAIN snipeit_categories
    /\ LowerStr(StripStr(row.Manufacturer)) \in DOMAIN snipeit_manufacturers

\* C21: a device whose category name has no remote category, while the
\* default category 'Desktop' exists remotely and its manufacturer resolves,
\* is not excluded: its model is resolved or created under the default
\* category and its asset is then created or found and reconciled.
C21_DefaultCategoryFallback ==
    FaithfulPassDone =>
        \A k \in DOMAIN bigfix_data :
            NeedsDefaultCategory(bigfix_data[k].row) =>
                /\ <<LowerStr(StripStr(bigfix_data[k].row.Model)),
                     snipeit_manufacturers[LowerStr(StripStr(bigfix_data[k].row.Manufacturer))],
                     snipeit_categories[LowerStr(DEFAULT_CATEGORY_NAME)]>>
                        \in DOMAIN snipeit_models
                /\ bigfix_data[k].key \in DOMAIN r_hardware
                /\ assets_skipped_final_count = 0

\* The part of C21 that holds: the model of such a device is resolved or
\* created under the default category.
C21_ModelUnderDefaultCategory ==
    FaithfulPassDone =>
        \A k \in DOMAIN bigfix_data :
            NeedsDefaultCategory(bigfix_data[k].row) =>
                <<LowerStr(StripStr(bigfix_data[k].row.Model)),
                  snipeit_manufacturers[LowerStr(StripStr(bigfix_data[k].row.Manufacturer))],
                  snipeit_categories[LowerStr(DEFAULT_CATEGORY_NAME)]>>
                    \in DOMAIN snipeit_models

(***************************************************************************)
(* Properties of the manufacturer population.                              *)
(***************************************************************************)
\* the create call for the next manufacturer is answered by the remote, which
\* already has a manufacturer of that name
AnsweredNameTaken ==
    /\ pc = "populate_manufacturers"
    /\ todo # <<>>
    /\ todo' = Tail(todo)
    /\ faults_left' = faults_left
    /\ LowerStr(Head(todo)) \notin DOMAIN snipeit_manufacturers
    /\ NameTaken(r_manufacturers, Head(todo))

\* C22: when the create call for a missing manufacturer is answered 'name
\* already taken', the manufacturer counts as resolved afterwards: it is in
\* the manufacturer cache, so its devices pass the taxonomy gate
C22_TakenNameIsResolved ==
    [][AnsweredNameTaken => LowerStr(Head(todo)) \in DOMAIN snipeit_manufacturers']_vars

(***************************************************************************)
(* Properties of the remote-call wrappers.                                 *)
(***************************************************************************)
\* the wrappers whose call the run makes outside the user sync and the two
\* read-only fetches
WrappersOfTheRun ==
    {"create_snipeit_manufacturer", "create_snipeit_model", "create_snipeit_asset",
     "update_asset_status", "checkin_asset", "checkout_asset_to_user"}

\* C23: every remote call returns to its caller: whatever the failure of the
\* request (no response at all, or an error response without a JSON body), no
\* wrapper raises an exception, so the run is never ended inside a wrapper
C23_WrappersReturn == halted \notin WrappersOfTheRun

(***************************************************************************)
(* Properties of the live re-fetch.                                        *)
(***************************************************************************)
\* the fetch of the current device's live status and assignment fails
LiveFetchFails == pc = "fetch_live" /\ faults_left' < faults_left

\* C24: a failed live re-fetch abandons the device: the engine goes on to the
\* next device, so it issues no status update, no checkin and no checkout for
\* the device in this pass
C24_FailedFetchAbandonsDevice == [][LiveFetchFails => pc' = "next_device"]_vars

(***************************************************************************)
(* Properties of the notes patch.                                          *)
(***************************************************************************)
IsTextLine(line) == line[1] = "text"
TextLinesOf(lines) == SelectSeq(lines, IsTextLine)

\* the engine writes the notes of the current device's asset
NotesWritten == pc = "write_notes" /\ r_hardware' # r_hardware

\* C25: the timestamp patch preserves the remote notes: whenever the engine
\* writes the notes of an existing asset, every line of text the asset's
\* remote notes had is in the notes it writes, in the same order, whatever
\* the outcome of the preceding read of the notes
C25_PatchPreservesRemoteNotes ==
    [][NotesWritten =>
          TextLinesOf(r_hardware'[CurrentKey].notes)
              = TextLinesOf(r_hardware[CurrentKey].notes)]_vars

\* the lines of a notes text that do not contain the marker
OtherLinesOf(lines) == SelectSeq(lines, LAMBDA line : ~HasMarker(line))

\* the patch of the current device's notes has been written
Patched ==
    /\ pc = "resolve"
    /\ devIdx = 1
    /\ CurrentKey \in DOMAIN hardware_before
    /\ r_hardware[CurrentKey].notes # hardware_before[CurrentKey].notes

EdgeTrimmed(line, kept) ==
    kept \in {line, LStripLine(line), RStripLine(line), RStripLine(LStripLine(line))}

MarkerCount(lines) == Cardinality({i \in DOMAIN lines : HasMarker(lines[i])})

C27_NotesNeverAbortLoad == halted # "load hardware"

(***************************************************************************)
(* Properties of a feed row with a malformed timestamp.                    *)
(***************************************************************************)
\* an accepted row whose timestamp text is present and cannot be parsed
MalformedRow(row) == AcceptedRow(row) /\ row.LastReportTime = BadTime

\* C28: a feed row whose timestamp is present but cannot be parsed is not
\* rejected: its serial has a record in the device set.  It ranks lowest: the
\* record of its serial is a row with a malformed timestamp exactly when no
\* row of the serial read so far has a parseable one, and the record is then
\* the first row of the serial, with the minimum timestamp
C28_MalformedTimestampRanksLowest ==
    \A i \in 1..rowIdx :
        MalformedRow(feed[i]) =>
            /\ DictIndex(bigfix_data, SerialKey(feed[i])) # 0
            /\ (bigfix_data[DictIndex(bigfix_data, SerialKey(feed[i]))].row.LastReportTime
                    = BadTime)
                  <=> (\A j \in Sharing(i) : feed[j].LastReportTime = BadTime)
            /\ (\A j \in Sharing(i) : feed[j].LastReportTime = BadTime) =>
                  /\ bigfix_data[DictIndex(bigfix_data, SerialKey(feed[i]))].row
                        = feed[Min(Sharing(i))]
                  /\ bigfix_data[DictIndex(bigfix_data, SerialKey(feed[i]))]
                        .parsed_last_report_time = TimeMin

\* two different rows of one serial, both with a malformed timestamp: the
\* first is the device's record
C28_Witness ==
    /\ rowIdx = 2
    /\ MalformedRow(feed[1]) /\ MalformedRow(feed[2])
    /\ SerialKey(feed[1]) = SerialKey(feed[2])
    /\ feed[1] # feed[2]
    /\ Len(bigfix_data) = 1
    /\ bigfix_data[1].row = feed[1]
    /\ bigfix_data[1].parsed_last_report_time = TimeMin

\* a device whose only row has a malformed timestamp still reaches the
\* reconciliation: in a pass without a failed call its asset is created
C28_MalformedRowDeviceReconciled ==
    (FaithfulPassDone /\ Len(feed) = 1 /\ MalformedRow(feed[1])
        /\ TaxonomyResolved(feed[1])) =>
            /\ SerialKey(feed[1]) \in DOMAIN r_hardware
            /\ Call("create_asset", "POST", <<"hardware", SerialKey(feed[1])>>) \in calls

C28_MalformedRowDeviceSeen ==
    FaithfulPassDone /\ Len(feed) = 1 /\ MalformedRow(feed[1]) /\ TaxonomyResolved(feed[1])

(***************************************************************************)
(* Properties of the snapshot.                                             *)
(***************************************************************************)
\* the eight paginated collection fetches of a pass have been made
SnapshotTaken(pass) ==
    \A i \in DOMAIN LoadOrder :
        [pass |-> pass, site |-> "load", op |-> "GET", target |-> <<LoadOrder[i], "*">>]
            \in calls

\* C29: snapshot before mutation: whenever a mutating remote call (POST, PUT
\* or DELETE) has been issued in a pass, the eight paginated collection
\* fetches of that pass (status labels, manufacturers, categories, locations,
\* companies, models, hardware, users) have been made before it
C29_SnapshotBeforeMutation ==
    \A c \in calls : Mutating(c) => SnapshotTaken(c.pass)

\* the first mutating call of a run has just been issued
C29_Witness ==
    /\ passNo = 1
    /\ Cardinality({c \in calls : Mutating(c)}) = 1
    /\ SnapshotTaken(1)

(***************************************************************************)
(* Properties of the asset cache.                                          *)
(***************************************************************************)
\* the order in which the device loop comes to its remote calls; a device
\* passes each site at most once in a pass
WorkflowOrder ==
    <<"read_notes", "write_notes", "fetch_live", "force_ready", "verify_ready",
      "checkin", "verify_checkin", "checkout", "verify_checkout", "corrective">>

\* the sites of the calls issued so far for asset S1
SitesIssued == {c.site : c \in {d \in calls : d.target[2] = "S1"}}

\* the user the feed row names, who is in the directory and provisioned
ExpectedUser == IF feed[1].UserName \in {"u1", "u2"} THEN feed[1].UserName ELSE NONE

\* the sites the remote state before the run and the feed call for: a function
\* of the remote asset, the feed row and the remote's checkout behaviour alone
ExpectedSites ==
    LET asset == hardware_before["S1"]
        newer == parse_last_report_time(feed[1].LastReportTime)
                    > LastReportTimeFromNotes(asset.notes)
        correct == /\ AssignedToId(asset) = ExpectedUser
                   /\ asset.status = CHECKED_OUT_STATUS_LABEL
    IN  (IF newer THEN {"read_notes", "write_notes"} ELSE {})
        \cup
        (IF ExpectedUser = NONE THEN {}
         ELSE IF correct THEN {"fetch_live"}
         ELSE {"fetch_live", "checkout", "verify_checkout"}
              \cup (IF asset.status # DEFAULT_STATUS_LABEL
                    THEN {"force_ready", "verify_ready"} ELSE {})
              \cup (IF AssignedToId(asset) # NONE
                    THEN {"checkin", "verify_checkin"} ELSE {})
              \cup (IF checkout_sets_status THEN {} ELSE {"corrective"}))

ExpectedSequence == SelectSeq(WorkflowOrder, LAMBDA site : site \in ExpectedSites)

\* C30: the checkout decision does not depend on the in-memory asset cache:
\* whatever assignment the cache holds for the asset, the remote calls issued
\* for it are, at every moment, the first calls of the one sequence that the
\* remote state and the feed determine, and the whole of it when the run ends
C30_CallsIndependentOfCache ==
    /\ Cardinality(SitesIssued) <= Len(ExpectedSequence)
    /\ SitesIssued = {ExpectedSequence[i] : i \in 1..Cardinality(SitesIssued)}
    /\ pc = "summary" => Cardinality(SitesIssued) = Len(ExpectedSequence)

\* a run whose cache names user u2 for an asset that is checked out to user
\* u1 remotely, as the feed wants: the live fetch is its only call
C30_Witness ==
    /\ pc = "summary"
    /\ snipeit_assets["S1"].checked_out_to_id = "u2"
    /\ r_hardware["S1"].assigned = AssignedTo("user", "u1")
    /\ feed[1].UserName = "u1"
    /\ SitesIssued = {"fetch_live"}

(***************************************************************************)
(* Properties of the marker line.                                          *)
(***************************************************************************)
\* a notes text with a marker line
Marked(notes) == \E i \in DOMAIN notes : HasMarker(notes[i])

\* C31: the timestamp marker survives every engine write: once the remote
\* notes of an asset contain a marker line, they contain one after every call
\* the engine makes on the asset (notes patch, forced status update, checkin,
\* checkout, corrective status update)
C31_MarkerSurvivesWrites ==
    [][\A k \in DOMAIN r_hardware :
          Marked(r_hardware[k].notes) =>
              k \in DOMAIN r_hardware' /\ Marked(r_hardware'[k].notes)]_vars

\* C32: notes timestamp round-trip: the loader's reading of the patched notes
\* (first line with the marker, the text after the marker parsed as
\* '%Y-%m-%d %H:%M:%S') is the feed timestamp the patch was made with
C32_NotesTimestampRoundTrip ==
    Patched => LastReportTimeFromNotes(r_hardware[CurrentKey].notes) = bigfix_last_report_time

\* notes with two marker lines, the first with an unparseable timestamp, are
\* patched with timestamp MaxTime
C32_Witness ==
    /\ Patched
    /\ hardware_before[CurrentKey].notes
          = <<MarkerLine(BadTime), TextLine("bought 2024"), MarkerLine(FormatIso(1))>>
    /\ bigfix_last_report_time = MaxTime

(***************************************************************************)
(* Properties of the reference indexes.                                    *)
(***************************************************************************)
\* a remote name that equals the name up to letter case and surrounding
\* whitespace
KnownUpToCaseAndSpace(names, name) ==
    \E i \in DOMAIN names : LowerStr(StripStr(names[i])) = LowerStr(StripStr(name))

\* C33: the lookups of the reference indexes ignore case and surrounding
\* whitespace: in a pass whose fetches all succeeded, no create call is
\* issued for a manufacturer whose name equals a remote manufacturer's name
\* up to letter case and leading or trailing whitespace, on either side
C33_LookupIgnoresCaseAndSpace ==
    [][faults_left = MaxFaults =>
          \A c \in NewCalls :
              c.site = "populate_manufacturers" =>
                  ~KnownUpToCaseAndSpace(r_manufacturers, c.target[2])]_vars

(***************************************************************************)
(* Properties of the remote user cache.                                    *)
(***************************************************************************)
\* C34: the remote user cache is consistently double-keyed: for every user
\* record in the cache that has both an Employee-ID and a NetID, the lookup
\* by Employee-ID and the lookup by lower-cased NetID both succeed and return
\* the same record
C34_CacheDoubleKeyed ==
    \A k \in DOMAIN snipeit_users :
        (snipeit_users[k].employee_num # NONE /\ snipeit_users[k].username # NONE) =>
            /\ snipeit_users[k].employee_num \in DOMAIN snipeit_users
            /\ snipeit_users[k].username \in DOMAIN snipeit_users
            /\ snipeit_users[snipeit_users[k].employee_num]
                  = snipeit_users[snipeit_users[k].username]

(***************************************************************************)
(* Properties of the user synchronisation.                                 *)
(***************************************************************************)
\* the directory row the synchronisation looks at next
RowAtHand == directory_file[dirIdx + 1]

\* a cached remote user with the row's Employee-ID, its NetID up to case, or
\* its email up to case
CachedIdentityOf(row) ==
    \E k \in DOMAIN snipeit_users :
        \/ snipeit_users[k].employee_num = StripStr(row.EmployeeID)
        \/ /\ ~Falsy(snipeit_users[k].username)
           /\ LowerStr(snipeit_users[k].username) = LowerStr(StripStr(row.EmployeeNetId))
        \/ /\ ~Falsy(snipeit_users[k].email)
           /\ LowerStr(snipeit_users[k].email) = LowerStr(StripStr(row.EmployeeEmailAddress))

\* C37: user provisioning never duplicates a cached identity: a create-user
\* call is issued for a directory row only when the row has all required
\* fields and no cached remote user has its Employee-ID, its NetID up to case
\* or its email up to case; after a successful create the new user is in the
\* cache under its Employee-ID, with the row's NetID and email
C37_NoDuplicateProvisioning ==
    [][\A c \in NewCalls :
          c.site = "sync_users" =>
              /\ RowComplete(RowAtHand)
              /\ ~CachedIdentityOf(RowAtHand)
              /\ r_users' # r_users =>
                    /\ StripStr(RowAtHand.EmployeeID) \in DOMAIN snipeit_users'
                    /\ snipeit_users'[StripStr(RowAtHand.EmployeeID)].username
                          = LowerStr(StripStr(RowAtHand.EmployeeNetId))
                    /\ snipeit_users'[StripStr(RowAtHand.EmployeeID)].email
                          = LowerStr(StripStr(RowAtHand.EmployeeEmailAddress))]_vars

\* two complete rows with the same NetID up to case and nothing else in
\* common, and no remote user: the first is provisioned, the second issues
\* no create call
C37_Witness ==
    /\ pc = "sync_users"
    /\ dirIdx = 2
    /\ directory_file = <<DirRow("U1", "E1", "u1@nyu.edu"), DirRow("u1", "E2", "u2@nyu.edu")>>
    /\ Len(r_users) = 1
    /\ {c.target : c \in {d \in calls : d.site = "sync_users"}} = {<<"users", "U1">>}

(***************************************************************************)
(* Properties of a failed checkout.                                        *)
(***************************************************************************)
\* the checkout call of the current device fails, after a checkin of the
\* device that succeeded and was verified
CheckoutFailsAfterCheckin ==
    /\ pc = "checkout"
    /\ faults_left' < faults_left
    /\ Call("checkin", "POST", <<"checkin", CurrentKey>>) \in calls

\* the device is left as the checkin left it: ready, without assignee, and
\* the cache says so
LeftCheckedIn ==
    /\ pc' = "next_device"
    /\ r_hardware'[CurrentKey].status = checkin_status_id
    /\ r_hardware'[CurrentKey].assigned = Unassigned
    /\ snipeit_assets'[CurrentKey].checked_out_to_id = NONE

\* C38: a failed checkout after a successful checkin is not rolled back: the
\* engine goes on to the next device without a further call for this one, the
\* asset stays in the ready status with no assignee, and the cached
\* assignment of the asset is set to none
C38_FailedCheckoutNotRolledBack == [][CheckoutFailsAfterCheckin => LeftCheckedIn]_vars

\* the same, for the failures that the checkout wrapper returns from
C38_WhenWrapperReturns ==
    [][(CheckoutFailsAfterCheckin /\ pc' # "crashed") => LeftCheckedIn]_vars

(***************************************************************************)
(* C39: the asset phase only reads identities and taxonomy.  From the      *)
(* first device of the asset loop on, no step of the run issues a create   *)
(* call for a user, a manufacturer, a category or a model; the directory   *)
(* records, the remote user cache and the manufacturer, category and model *)
(* indexes stay as they are, and so do the remote users, manufacturers,    *)
(* categories and models; every mutating call addresses a hardware record  *)
(* (the record itself, its checkin or its checkout).                       *)
(***************************************************************************)
AssetPhase ==
    {"next_device", "read_notes", "write_notes", "create_asset", "resolve", "fetch_live",
     "force_ready", "verify_ready", "checkin", "verify_checkin", "checkout",
     "verify_checkout", "corrective"}

HardwareEndpoints == {"hardware", "checkin", "checkout"}

IdentitiesAndTaxonomyKept ==
    /\ \A c \in NewCalls : Mutating(c) => c.target[1] \in HardwareEndpoints
    /\ UNCHANGED <<directory_data_for_user_lookup, snipeit_users, snipeit_manufacturers,
                   snipeit_categories, snipeit_models, r_users, r_manufacturers,
                   r_categories, r_models>>

C39_AssetPhaseOnlyReads == [][(pc \in AssetPhase) => IdentitiesAndTaxonomyKept]_vars

\* the asset phase has created an asset and checked it out, after a run
\* that provisioned a user, and has reached its end
C39_Witness ==
    /\ pc = "summary"
    /\ passNo = 1
    /\ \E c \in calls : c.site = "sync_users" /\ c.op = "POST"
    /\ \E c \in calls : c.site = "create_asset"
    /\ \E c \in calls : c.site = "checkout"

(***************************************************************************)
(* C35: the paginated fetch is complete.  When the pages of a collection   *)
(* of N rows are all served, get_snipeit_data_paginated has requested the  *)
(* offsets 0, limit, 2*limit, ... in order, up to the first page shorter   *)
(* than the limit (the empty page at offset N when N is a multiple of the  *)
(* limit), and returns the N rows, each once, in collection order.         *)
(***************************************************************************)
ExpectedOffsets(n) ==
    [i \in 1..((n \div MAX_API_LIMIT_PER_REQUEST) + 1) |->
        (i - 1) * MAX_API_LIMIT_PER_REQUEST]

C35_PaginatedFetchComplete ==
    (fetch_pc = "return" /\ faults_left = MaxFaults) =>
        /\ requested = ExpectedOffsets(Len(collection))
        /\ all_items = collection

\* a collection of a whole number of pages has been fetched: the last
\* request was answered by an empty page
C35_Witness ==
    /\ fetch_pc = "return"
    /\ faults_left = MaxFaults
    /\ collection # <<>>
    /\ Len(collection) % MAX_API_LIMIT_PER_REQUEST = 0
    /\ page_rows = <<>>
    /\ Len(requested) > 1

(***************************************************************************)
(* C36: uniform pacing.  Every remote call is followed by the delay before *)
(* the next remote call is issued, a failed page request of a paginated    *)
(* fetch included: no request is issued while the call before it has not   *)
(* been followed by a delay.                                               *)
(***************************************************************************)
C36_DelayBetweenCalls == [][(requested' # requested /\ fetch_pc = "request") => ~undelayed]_vars

\* the same, for the requests that follow an answered request
C36_DelayAfterServedPage ==
    [][(requested' # requested /\ fetch_pc = "request" /\ faults_left = MaxFaults)
          => ~undelayed]_vars

=============================================================================
